---- MODULE Spec2Model ----
(***************************************************************************)
(* Shot-statistics and narrative-insight engine of the golf data viewer   *)
(* (webapp/src/utils/shotAnalysis.ts) together with the value extraction  *)
(* shared with the chart layer (ShotVisualizations.tsx).                   *)
(*                                                                         *)
(* Numbers.  The code computes in IEEE doubles.  The model computes in     *)
(* exact rationals [n, d] (d > 0, lowest terms); a square root is kept as  *)
(* the rational under the root (Sqrt(q) == [sq |-> q]) and compared by     *)
(* squaring, so every threshold test is decided exactly.  Rounding error   *)
(* of the floating-point evaluation is outside the model.                  *)
(*                                                                         *)
(* Text.  Sentences are built as strings exactly as the template literals  *)
(* build them; the four non-ASCII characters of the source are written in  *)
(* ASCII: em dash "--", en dash "-", plus-minus "+/-", degree sign "deg".  *)
(*                                                                         *)
(* The source file holds the engine twice: lines 1-336 compute the central *)
(* value as the median (Stats.median), lines 338-666 as the arithmetic     *)
(* mean (Stats.avg).  The variable rule says which copy is evaluated.      *)
(***************************************************************************)
EXTENDS Integers, Sequences, FiniteSets, TLC

\* ------------------------------------------------------------------ bounds
\* longest value sequence handed to calculateStats in SpecStats
MaxLen == 4
\* samples are the integers -MaxVal .. MaxVal in SpecStats
MaxVal == 2
\* most strokes in a club group in SpecEngine
MaxShots == 3
\* getShotShape is called with face-to-path -MaxCenti/100 .. MaxCenti/100 degrees
MaxCenti == 600
\* and with club path -MaxPath .. MaxPath degrees
MaxPath == 2
\* largest dispersion handed to getConsistencyRating in SpecCalls, in tenths
MaxDeci == 110

\* most requests ShotChart issues in a behaviour
MaxFetches == 3

\* most messages the background worker receives in a behaviour
MaxMessages == 3

\* ------------------------------------------------------- exact arithmetic
\* the JavaScript value undefined (a record, so that it compares with records)
Undefined == [undefined |-> TRUE]

RECURSIVE GCD(_, _)
GCD(a, b) == IF b = 0 THEN a ELSE GCD(b, a % b)

AbsInt(k) == IF k < 0 THEN -k ELSE k

\* the rational n/d in lowest terms with a positive denominator
Rat(n, d) ==
  LET s == IF d < 0 THEN -1 ELSE 1
      g == GCD(AbsInt(n), AbsInt(d))
  IN  [n |-> (s * n) \div g, d |-> (s * d) \div g]

Int2Rat(k) == [n |-> k, d |-> 1]

\* sums over the least common denominator, products after cross-cancelling,
\* so that intermediate integers stay as small as the result allows
RAdd(a, b) ==
  LET l == (a.d \div GCD(a.d, b.d)) * b.d
  IN  Rat(a.n * (l \div a.d) + b.n * (l \div b.d), l)
RSub(a, b) ==
  LET l == (a.d \div GCD(a.d, b.d)) * b.d
  IN  Rat(a.n * (l \div a.d) - b.n * (l \div b.d), l)
RMul(a, b) ==
  LET g1 == GCD(AbsInt(a.n), b.d)
      g2 == GCD(AbsInt(b.n), a.d)
  IN  Rat((a.n \div g1) * (b.n \div g2), (a.d \div g2) * (b.d \div g1))
\* a / b for b # 0
RDiv(a, b) ==
  RMul(a, IF b.n < 0 THEN [n |-> -b.d, d |-> -b.n] ELSE [n |-> b.d, d |-> b.n])
RNeg(a)    == [n |-> -a.n, d |-> a.d]
RAbs(a)    == [n |-> AbsInt(a.n), d |-> a.d]
RSquare(a) == RMul(a, a)

\* a/b < c/d for b, d > 0, by continued-fraction comparison (no products)
RECURSIVE FracLess(_, _, _, _)
FracLess(a, b, c, d) ==
  LET qa == a \div b
      qc == c \div d
      ra == a % b
      rc == c % d
  IN  IF qa # qc THEN qa < qc
      ELSE IF rc = 0 THEN FALSE
      ELSE IF ra = 0 THEN TRUE
      ELSE FracLess(d, rc, b, ra)

RLess(a, b) == FracLess(a.n, a.d, b.n, b.d)
RLeq(a, b)  == ~RLess(b, a)
RIsZero(a)  == a.n = 0

\* Math.sqrt(q) for q >= 0, kept as the radicand
Sqrt(q) == [sq |-> q]
\* Math.sqrt(q) < t, > t, = 0 for a rational t
SqrtLess(s, t)    == RLess(Int2Rat(0), t) /\ RLess(s.sq, RSquare(t))
SqrtGreater(s, t) == RLess(t, Int2Rat(0)) \/ RLess(RSquare(t), s.sq)
SqrtIsZero(s)     == RIsZero(s.sq)

\* ------------------------------------------------------------ sequences
RECURSIVE SumSeq(_)
\* values.reduce((a, b) => a + b, 0)
SumSeq(s) == IF s = << >> THEN Int2Rat(0) ELSE RAdd(SumSeq(Tail(s)), Head(s))

RECURSIVE MinSeq(_)
\* Math.min(...values) for a non-empty array
MinSeq(s) ==
  IF Len(s) = 1 THEN s[1]
  ELSE LET m == MinSeq(Tail(s)) IN IF RLess(m, s[1]) THEN m ELSE s[1]

RECURSIVE MaxSeq(_)
\* Math.max(...values) for a non-empty array
MaxSeq(s) ==
  IF Len(s) = 1 THEN s[1]
  ELSE LET m == MaxSeq(Tail(s)) IN IF RLess(s[1], m) THEN m ELSE s[1]

RECURSIVE Insert(_, _)
Insert(v, s) ==
  IF s = << >> THEN <<v>>
  ELSE IF RLeq(v, Head(s)) THEN <<v>> \o s
  ELSE <<Head(s)>> \o Insert(v, Tail(s))

RECURSIVE SortAsc(_)
\* [...values].sort((a, b) => a - b): a sorted copy, ascending
SortAsc(s) == IF s = << >> THEN << >> ELSE Insert(Head(s), SortAsc(Tail(s)))

MapSeq(s, F(_)) == [i \in 1..Len(s) |-> F(s[i])]

\* ------------------------------------------------------- StatisticsEngine
\* mutant: the middle of the array as given, the sort is forgotten
calculateMedian_Unsorted(values) ==
  LET sorted == values
      mid    == Len(sorted) \div 2
  IN  IF Len(sorted) % 2 # 0
        THEN sorted[mid + 1]
        ELSE RDiv(RAdd(sorted[mid], sorted[mid + 1]), Int2Rat(2))

calculateMedian(values) ==
  LET sorted == SortAsc(values)
      mid    == Len(sorted) \div 2
  IN  IF Len(sorted) % 2 # 0
        THEN sorted[mid + 1]
        ELSE RDiv(RAdd(sorted[mid], sorted[mid + 1]), Int2Rat(2))

\* source index mid is 0-based: sorted[mid] is the model's sorted[mid + 1]

\* mutant: the argument array itself is sorted (values.sort(...))
ArrayAfterMedian_SortedInPlace(values) == SortAsc(values)

\* the argument array once calculateMedian has returned: the sort works on
\* the copy [...values], the argument keeps its order
ArrayAfterMedian(values) == values

\* mutant: the deviation itself, Math.pow is forgotten
SquaredDiffs_NoSquare(values, c) == [i \in 1..Len(values) |-> RSub(values[i], c)]

\* values.map(v => Math.pow(v - c, 2))
SquaredDiffs(values, c) == [i \in 1..Len(values) |-> RSquare(RSub(values[i], c))]

\* mutant: an empty array gives an all-zero Stats instead of undefined
calculateStats_ZeroOnEmpty(values) ==
  IF Len(values) = 0
    THEN [median |-> Int2Rat(0), min |-> Int2Rat(0), max |-> Int2Rat(0),
          stdDev |-> Sqrt(Int2Rat(0)), values |-> values]
  ELSE
    LET median == calculateMedian(values)
    IN  [median |-> median, min |-> MinSeq(values), max |-> MaxSeq(values),
         stdDev |-> Sqrt(RDiv(SumSeq(SquaredDiffs(values, median)), Int2Rat(Len(values)))),
         values |-> values]

\* mutant: the sample standard deviation, divisor length - 1
calculateStats_SampleDivisor(values) ==
  IF Len(values) = 0 THEN Undefined
  ELSE
    LET median  == calculateMedian(values)
        divisor == IF Len(values) = 1 THEN 1 ELSE Len(values) - 1
    IN  [median |-> median, min |-> MinSeq(values), max |-> MaxSeq(values),
         stdDev |-> Sqrt(RDiv(SumSeq(SquaredDiffs(values, median)), Int2Rat(divisor))),
         values |-> values]

\* median copy of the engine (lines 47-60)
calculateStats(values) ==
  IF Len(values) = 0 THEN Undefined
  ELSE
    LET median          == calculateMedian(values)
        min             == MinSeq(values)
        max             == MaxSeq(values)
        squaredDiffs    == SquaredDiffs(values, median)
        meanSquaredDiff == RDiv(SumSeq(squaredDiffs), Int2Rat(Len(values)))
        stdDev          == Sqrt(meanSquaredDiff)
    IN  [median |-> median, min |-> min, max |-> max, stdDev |-> stdDev,
         values |-> ArrayAfterMedian(values)]

\* mean copy of the engine (lines 378-390)
calculateStatsAvg(values) ==
  IF Len(values) = 0 THEN Undefined
  ELSE
    LET avg            == RDiv(SumSeq(values), Int2Rat(Len(values)))
        min            == MinSeq(values)
        max            == MaxSeq(values)
        squaredDiffs   == SquaredDiffs(values, avg)
        avgSquaredDiff == RDiv(SumSeq(squaredDiffs), Int2Rat(Len(values)))
        stdDev         == Sqrt(avgSquaredDiff)
    IN  [avg |-> avg, min |-> min, max |-> max, stdDev |-> stdDev,
         values |-> values]

\* the central statistic of a Stats record of either copy
Central(stats) == IF "median" \in DOMAIN stats THEN stats.median ELSE stats.avg

StatsOf(r, values) ==
  IF r = "median" THEN calculateStats(values) ELSE calculateStatsAvg(values)

\* --------------------------------------------------------- shot records
\* the fields of a Measurement (api/trackman.ts)
MeasurementKeys ==
  {"ClubSpeed", "AttackAngle", "BallSpeed", "LaunchAngle", "LaunchDirection",
   "SpinRate", "SpinAxis", "Carry", "Total", "CarrySide", "TotalSide",
   "MaxHeight", "HangTime", "LandingAngle", "SmashFactor", "ClubPath",
   "FaceAngle", "FaceToPath", "DynamicLoft"}

\* a Measurement with no field set: the object {}
EmptyMeasurement == [k \in MeasurementKeys |-> Undefined]

\* typeof v === 'number'
IsNumber(v) == v # Undefined

\* mutant: the normalized record is preferred
getMeasurement_PreferNormalized(stroke) ==
  IF stroke.NormalizedMeasurement # Undefined THEN stroke.NormalizedMeasurement
  ELSE stroke.Measurement

\* s.Measurement || s.NormalizedMeasurement (an object is truthy, even {})
getMeasurement(stroke) ==
  IF stroke.Measurement # Undefined THEN stroke.Measurement
  ELSE stroke.NormalizedMeasurement

\* m?.[key]
OptField(m, key) == IF m = Undefined THEN Undefined ELSE m[key]

\* mutant: a missing value is coerced to 0 instead of being filtered out
extractValues_ZeroForAbsent(strokes, key) ==
  [i \in 1..Len(strokes) |->
     LET v == OptField(getMeasurement(strokes[i]), key)
     IN  IF IsNumber(v) THEN v ELSE Int2Rat(0)]

\* strokes.map(s => (s.Measurement || s.NormalizedMeasurement)?.[key])
\*        .filter(v => typeof v === 'number')
extractValues(strokes, key) ==
  LET mapped == [i \in 1..Len(strokes) |-> OptField(getMeasurement(strokes[i]), key)]
  IN  SelectSeq(mapped, IsNumber)

\* the Stats fields of a ClubAnalysis and the Measurement key each is built from
StatsKey ==
  [carryStats |-> "Carry", totalStats |-> "Total", carrySideStats |-> "CarrySide",
   totalSideStats |-> "TotalSide", clubSpeedStats |-> "ClubSpeed",
   ballSpeedStats |-> "BallSpeed", smashFactorStats |-> "SmashFactor",
   launchAngleStats |-> "LaunchAngle", launchDirectionStats |-> "LaunchDirection",
   spinRateStats |-> "SpinRate", spinAxisStats |-> "SpinAxis",
   clubPathStats |-> "ClubPath", faceAngleStats |-> "FaceAngle",
   faceToPathStats |-> "FaceToPath", attackAngleStats |-> "AttackAngle",
   maxHeightStats |-> "MaxHeight", landingAngleStats |-> "LandingAngle"]

StatsFields == DOMAIN StatsKey

\* analyzeClubGroup of either copy: r selects the calculateStats it calls
analyzeClubGroup(r, strokes) ==
  [shotCount            |-> Len(strokes),
   carryStats           |-> StatsOf(r, extractValues(strokes, "Carry")),
   totalStats           |-> StatsOf(r, extractValues(strokes, "Total")),
   carrySideStats       |-> StatsOf(r, extractValues(strokes, "CarrySide")),
   totalSideStats       |-> StatsOf(r, extractValues(strokes, "TotalSide")),
   clubSpeedStats       |-> StatsOf(r, extractValues(strokes, "ClubSpeed")),
   ballSpeedStats       |-> StatsOf(r, extractValues(strokes, "BallSpeed")),
   smashFactorStats     |-> StatsOf(r, extractValues(strokes, "SmashFactor")),
   launchAngleStats     |-> StatsOf(r, extractValues(strokes, "LaunchAngle")),
   launchDirectionStats |-> StatsOf(r, extractValues(strokes, "LaunchDirection")),
   spinRateStats        |-> StatsOf(r, extractValues(strokes, "SpinRate")),
   spinAxisStats        |-> StatsOf(r, extractValues(strokes, "SpinAxis")),
   clubPathStats        |-> StatsOf(r, extractValues(strokes, "ClubPath")),
   faceAngleStats       |-> StatsOf(r, extractValues(strokes, "FaceAngle")),
   faceToPathStats      |-> StatsOf(r, extractValues(strokes, "FaceToPath")),
   attackAngleStats     |-> StatsOf(r, extractValues(strokes, "AttackAngle")),
   maxHeightStats       |-> StatsOf(r, extractValues(strokes, "MaxHeight")),
   landingAngleStats    |-> StatsOf(r, extractValues(strokes, "LandingAngle"))]

\* ------------------------------------------------------------ formatting
RECURSIVE Pow10(_)
Pow10(k) == IF k = 0 THEN 1 ELSE 10 * Pow10(k - 1)

RECURSIVE ISqrtBetween(_, _, _)
\* the largest r in lo..hi with r * r <= n (lo * lo <= n is given)
ISqrtBetween(n, lo, hi) ==
  IF lo = hi THEN lo
  ELSE LET mid == (lo + hi + 1) \div 2
       IN  IF mid * mid <= n THEN ISqrtBetween(n, mid, hi)
           ELSE ISqrtBetween(n, lo, mid - 1)

\* floor of the square root of a natural number
ISqrt(n) == ISqrtBetween(n, 0, IF n < 46340 THEN n ELSE 46340)

RECURSIVE FloorScaled(_, _, _, _)
\* floor((whole + rem / b) * 10^e) for 0 <= rem < b, by long division
FloorScaled(whole, rem, b, e) ==
  IF e = 0 THEN whole
  ELSE FloorScaled(whole * 10 + (rem * 10) \div b, (rem * 10) % b, b, e - 1)

RECURSIVE PadDigits(_, _)
\* the decimal digits of k, left-padded with zeros to width w
PadDigits(k, w) ==
  IF w = 0 THEN ""
  ELSE PadDigits(k \div 10, w - 1) \o ToString(k % 10)

\* the digits of k / 10^decimals as toFixed prints them
FixedDigits(k, decimals) ==
  ToString(k \div Pow10(decimals)) \o
  (IF decimals = 0 THEN "" ELSE "." \o PadDigits(k % Pow10(decimals), decimals))

\* n.toFixed(decimals) for a rational n: nearest multiple of 10^-decimals,
\* a tie goes to the larger magnitude, the sign is printed when n < 0
formatNum(n, decimals) ==
  LET a == RAbs(n)
      k == (2 * a.n * Pow10(decimals) + a.d) \div (2 * a.d)
  IN  (IF n.n < 0 THEN "-" ELSE "") \o FixedDigits(k, decimals)

\* Math.sqrt(q).toFixed(decimals): round(sqrt(q) * 10^decimals)
formatNumSqrt(s, decimals) ==
  LET q4 == RMul(Int2Rat(4), s.sq)
      k  == (ISqrt(FloorScaled(q4.n \div q4.d, q4.n % q4.d, q4.d, 2 * decimals)) + 1) \div 2
  IN  FixedDigits(k, decimals)

\* ---------------------------------------------------------- club names
LowerChar(c) ==
  CASE c = "A" -> "a" [] c = "B" -> "b" [] c = "C" -> "c" [] c = "D" -> "d"
    [] c = "E" -> "e" [] c = "F" -> "f" [] c = "G" -> "g" [] c = "H" -> "h"
    [] c = "I" -> "i" [] c = "J" -> "j" [] c = "K" -> "k" [] c = "L" -> "l"
    [] c = "M" -> "m" [] c = "N" -> "n" [] c = "O" -> "o" [] c = "P" -> "p"
    [] c = "Q" -> "q" [] c = "R" -> "r" [] c = "S" -> "s" [] c = "T" -> "t"
    [] c = "U" -> "u" [] c = "V" -> "v" [] c = "W" -> "w" [] c = "X" -> "x"
    [] c = "Y" -> "y" [] c = "Z" -> "z" [] OTHER -> c

\* mutant: the name is matched as written
toLowerCase_AsWritten(str) == str

RECURSIVE toLowerCase(_)
toLowerCase(str) ==
  IF Len(str) = 0 THEN ""
  ELSE LowerChar(SubSeq(str, 1, 1)) \o toLowerCase(SubSeq(str, 2, Len(str)))

\* str.includes(sub)
includes(str, sub) ==
  \E i \in 1..(Len(str) - Len(sub) + 1) : SubSeq(str, i, i + Len(sub) - 1) = sub

\* ------------------------------------------------------- rating functions
Pct(k) == Rat(k, 100)

\* mutant: the cutoff is inclusive (cv <= t)
CvPercentLess_Inclusive(stdDev, median, t) ==
  /\ ~RIsZero(median)
  /\ ~SqrtGreater(stdDev, RMul(RAbs(median), Pct(t)))

\* (stdDev / Math.abs(median)) * 100 < t; a zero median gives Infinity or NaN
CvPercentLess(stdDev, median, t) ==
  /\ ~RIsZero(median)
  /\ SqrtLess(stdDev, RMul(RAbs(median), Pct(t)))

getConsistencyRating(stdDev, median) ==
  IF CvPercentLess(stdDev, median, 3) THEN "excellent"
  ELSE IF CvPercentLess(stdDev, median, 6) THEN "good"
  ELSE IF CvPercentLess(stdDev, median, 10) THEN "moderate"
  ELSE "inconsistent"

\* mutant: the cutoffs are inclusive (stdDev <= 5, ...)
getDispersionRating_InclusiveCutoff(stdDev) ==
  IF ~SqrtGreater(stdDev, Int2Rat(5)) THEN "tight"
  ELSE IF ~SqrtGreater(stdDev, Int2Rat(10)) THEN "good"
  ELSE IF ~SqrtGreater(stdDev, Int2Rat(18)) THEN "moderate"
  ELSE "wide"

getDispersionRating(stdDev) ==
  IF SqrtLess(stdDev, Int2Rat(5)) THEN "tight"
  ELSE IF SqrtLess(stdDev, Int2Rat(10)) THEN "good"
  ELSE IF SqrtLess(stdDev, Int2Rat(18)) THEN "moderate"
  ELSE "wide"

getPathTendency(median) ==
  IF RLess(median, Int2Rat(-3)) THEN "strongly in-to-out"
  ELSE IF RLess(median, Int2Rat(-1)) THEN "slightly in-to-out"
  ELSE IF RLess(Int2Rat(3), median) THEN "strongly out-to-in"
  ELSE IF RLess(Int2Rat(1), median) THEN "slightly out-to-in"
  ELSE "neutral"

getFaceTendency(median) ==
  IF RLess(median, Int2Rat(-3)) THEN "significantly closed"
  ELSE IF RLess(median, Int2Rat(-1)) THEN "slightly closed"
  ELSE IF RLess(Int2Rat(3), median) THEN "significantly open"
  ELSE IF RLess(Int2Rat(1), median) THEN "slightly open"
  ELSE "square"

\* mutant: the cutoffs at 2 degrees are inclusive
getShotShape_InclusiveCutoff(clubPath, faceToPath) ==
  LET shape    == IF RLeq(faceToPath, Int2Rat(-2)) THEN "draw"
                  ELSE IF RLeq(Int2Rat(2), faceToPath) THEN "fade"
                  ELSE "straight"
      severity == IF RLess(Int2Rat(5), RAbs(faceToPath)) THEN "strong " ELSE ""
  IN  severity \o shape

getShotShape(clubPath, faceToPath) ==
  LET shape    == IF RLess(faceToPath, Int2Rat(-2)) THEN "draw"
                  ELSE IF RLess(Int2Rat(2), faceToPath) THEN "fade"
                  ELSE "straight"
      severity == IF RLess(Int2Rat(5), RAbs(faceToPath)) THEN "strong " ELSE ""
  IN  severity \o shape

getSpinAssessment(spinRate, club) ==
  LET clubLower == toLowerCase(club)
  IN  IF includes(clubLower, "driver") THEN
        IF RLess(spinRate, Int2Rat(2000)) THEN "very low (may balloon or have limited carry)"
        ELSE IF RLess(spinRate, Int2Rat(2500)) THEN "optimal for distance"
        ELSE IF RLess(spinRate, Int2Rat(3000)) THEN "slightly high"
        ELSE "too high (losing distance)"
      ELSE IF includes(clubLower, "iron") \/ includes(clubLower, "wedge") THEN
        IF RLess(spinRate, Int2Rat(4000)) THEN "low (may struggle to hold greens)"
        ELSE IF RLess(spinRate, Int2Rat(7000)) THEN "good"
        ELSE IF RLess(spinRate, Int2Rat(9000)) THEN "high (good stopping power)"
        ELSE "very high"
      ELSE "within normal range"

getLaunchAssessment(launchAngle, club) ==
  LET clubLower == toLowerCase(club)
  IN  IF includes(clubLower, "driver") THEN
        IF RLess(launchAngle, Int2Rat(9)) THEN "too low for optimal carry"
        ELSE IF RLess(launchAngle, Int2Rat(12)) THEN "slightly low"
        ELSE IF RLess(launchAngle, Int2Rat(15)) THEN "optimal"
        ELSE IF RLess(launchAngle, Int2Rat(18)) THEN "slightly high"
        ELSE "too high"
      ELSE IF RLess(launchAngle, Int2Rat(10)) THEN "low"
      ELSE IF RLess(launchAngle, Int2Rat(20)) THEN "mid"
      ELSE IF RLess(launchAngle, Int2Rat(30)) THEN "high"
      ELSE "very high"

getSmashFactorAssessment(smashFactor, club) ==
  LET clubLower == toLowerCase(club)
  IN  IF includes(clubLower, "driver") THEN
        IF RLeq(Pct(150), smashFactor) THEN "excellent (tour-level efficiency)"
        ELSE IF RLeq(Pct(148), smashFactor) THEN "very good"
        ELSE IF RLeq(Pct(145), smashFactor) THEN "good"
        ELSE IF RLeq(Pct(140), smashFactor) THEN "below average"
        ELSE "poor (check strike quality)"
      ELSE IF RLeq(Pct(138), smashFactor) THEN "excellent"
      ELSE IF RLeq(Pct(133), smashFactor) THEN "good"
      ELSE IF RLeq(Pct(128), smashFactor) THEN "average"
      ELSE "below average"

\* ------------------------------------------- overall consistency score
\* fixed-point scale of the square-root bounds used for the mean CV
CvScale == 1000

\* floor(sqrt(q) * CvScale) for a rational q >= 0
SqrtFloor(q) == ISqrt(FloorScaled(q.n \div q.d, q.n % q.d, q.d, 6))

\* sqrt(q) * CvScale is the integer SqrtFloor(q)
SqrtExact(q) ==
  LET lo == SqrtFloor(q)
  IN  /\ (1000000 % q.d) = 0
      /\ q.n * (1000000 \div q.d) = lo * lo

\* one consistency score stdDev / divisor
\*   kind "nan": 0 / 0;  "inf": positive / 0;  "num": sign * sqrt(q)
Score(stdDev, divisor) ==
  IF RIsZero(divisor)
    THEN [kind |-> IF SqrtIsZero(stdDev) THEN "nan" ELSE "inf", sign |-> 1, q |-> Int2Rat(0)]
    ELSE [kind |-> "num", sign |-> IF divisor.n < 0 THEN -1 ELSE 1,
          q |-> RDiv(stdDev.sq, RSquare(divisor))]

RECURSIVE ScoreSumLow(_)
\* a lower bound of CvScale * (sum of the scores), exact when every score is
ScoreSumLow(scores) ==
  IF scores = << >> THEN 0
  ELSE LET t  == Head(scores)
           lo == SqrtFloor(t.q)
       IN  ScoreSumLow(Tail(scores)) +
           (IF t.sign = 1 THEN lo ELSE IF SqrtExact(t.q) THEN -lo ELSE -lo - 1)

RECURSIVE ScoreSumHigh(_)
\* an upper bound of CvScale * (sum of the scores), exact when every score is
ScoreSumHigh(scores) ==
  IF scores = << >> THEN 0
  ELSE LET t  == Head(scores)
           lo == SqrtFloor(t.q)
       IN  ScoreSumHigh(Tail(scores)) +
           (IF t.sign = -1 THEN -lo ELSE IF SqrtExact(t.q) THEN lo ELSE lo + 1)

ScoresFinite(scores) == \A i \in 1..Len(scores) : scores[i].kind = "num"

\* the bounds of the sum decide the comparison with pct / 100
MeanCVDecided(scores, pct) ==
  LET target == pct * (CvScale \div 100) * Len(scores)
  IN  \/ ~ScoresFinite(scores)
      \/ ScoreSumLow(scores) = ScoreSumHigh(scores)
      \/ ScoreSumHigh(scores) <= target
      \/ ScoreSumLow(scores) >= target

\* scores.reduce((a, b) => a + b, 0) / scores.length < pct / 100
\* (a comparison with Infinity or NaN is false)
MeanCVLess(scores, pct) ==
  LET target == pct * (CvScale \div 100) * Len(scores)
  IN  /\ ScoresFinite(scores)
      /\ IF ScoreSumLow(scores) = ScoreSumHigh(scores)
           THEN ScoreSumLow(scores) < target
           ELSE ScoreSumHigh(scores) <= target

\* --------------------------------------------------------- InsightGenerator
Has(x) == x # Undefined

\* the wording that differs between the two copies of the engine
DistanceLead(r, c) ==
  IF r = "median" THEN "Median carry of " \o c \o " yards with "
  ELSE "Averaging " \o c \o " yards carry with "

SpeedLead(r) == IF r = "median" THEN "Median club speed " ELSE "Club speed averaging "
LaunchLead(r) == IF r = "median" THEN "Median launch angle " ELSE "Launch angle averaging "
SpinLead(r) == IF r = "median" THEN "Median spin rate " ELSE "Spin rate averaging "

\* Distance summary
DistanceParts(r, a, clubName) ==
  IF Has(a.carryStats) THEN
    LET distConsistency == getConsistencyRating(a.carryStats.stdDev, Central(a.carryStats))
    IN  << DistanceLead(r, formatNum(Central(a.carryStats), 1)) \o distConsistency \o
           " consistency (" \o formatNum(a.carryStats.min, 1) \o "-" \o
           formatNum(a.carryStats.max, 1) \o " range)." >>
  ELSE << >>

\* Dispersion analysis
DispersionParts(r, a, clubName) ==
  IF Has(a.carrySideStats) THEN
    LET dispersion == getDispersionRating(a.carrySideStats.stdDev)
        medianSide == Central(a.carrySideStats)
        tendency   == IF RLess(Int2Rat(5), RAbs(medianSide))
                        THEN (IF medianSide.n < 0 THEN " with a tendency left"
                              ELSE " with a tendency right")
                        ELSE ""
    IN  << "Dispersion is " \o dispersion \o " (+/-" \o
           formatNumSqrt(a.carrySideStats.stdDev, 1) \o " yards)" \o tendency \o "." >>
  ELSE << >>

\* Swing path and face analysis, with the path consistency note
PathFaceParts(r, a, clubName) ==
  IF Has(a.clubPathStats) /\ Has(a.faceAngleStats) /\ Has(a.faceToPathStats) THEN
    LET pathTendency == getPathTendency(Central(a.clubPathStats))
        faceTendency == getFaceTendency(Central(a.faceAngleStats))
        shotShape    == getShotShape(Central(a.clubPathStats), Central(a.faceToPathStats))
    IN  << "Swing path is " \o pathTendency \o " (" \o
           formatNum(Central(a.clubPathStats), 1) \o "deg) with a " \o faceTendency \o
           " face (" \o formatNum(Central(a.faceAngleStats), 1) \o "deg), producing a " \o
           shotShape \o "." >>
        \o
        (IF SqrtGreater(a.clubPathStats.stdDev, Int2Rat(3))
           THEN << "Path consistency could improve--varying by +/-" \o
                   formatNumSqrt(a.clubPathStats.stdDev, 1) \o "deg." >>
           ELSE << >>)
  ELSE << >>

\* Speed and efficiency
SpeedParts(r, a, clubName) ==
  IF Has(a.clubSpeedStats) /\ Has(a.smashFactorStats) THEN
    LET speedConsistency == getConsistencyRating(a.clubSpeedStats.stdDev, Central(a.clubSpeedStats))
        smashAssessment  == getSmashFactorAssessment(Central(a.smashFactorStats), clubName)
    IN  << SpeedLead(r) \o formatNum(Central(a.clubSpeedStats), 1) \o " mph (" \o
           speedConsistency \o " consistency). Smash factor of " \o
           formatNum(Central(a.smashFactorStats), 2) \o " is " \o smashAssessment \o "." >>
  ELSE << >>

\* Launch conditions
LaunchParts(r, a, clubName) ==
  IF Has(a.launchAngleStats) THEN
    LET launchAssessment == getLaunchAssessment(Central(a.launchAngleStats), clubName)
    IN  << LaunchLead(r) \o formatNum(Central(a.launchAngleStats), 1) \o "deg (" \o
           launchAssessment \o ")." >>
  ELSE << >>

\* Spin analysis
SpinParts(r, a, clubName) ==
  IF Has(a.spinRateStats) THEN
    LET spinAssessment  == getSpinAssessment(Central(a.spinRateStats), clubName)
        spinConsistency == getConsistencyRating(a.spinRateStats.stdDev, Central(a.spinRateStats))
    IN  << SpinLead(r) \o formatNum(Central(a.spinRateStats), 0) \o " rpm--" \o
           spinAssessment \o ". Spin consistency is " \o spinConsistency \o "." >>
  ELSE << >>

\* Spin axis (affects curve)
SpinAxisParts(r, a, clubName) ==
  IF Has(a.spinAxisStats) /\ RLess(Int2Rat(5), RAbs(Central(a.spinAxisStats))) THEN
    LET tilt == IF Central(a.spinAxisStats).n < 0 THEN "left (draw spin)"
                ELSE "right (fade spin)"
    IN  << "Spin axis tilted " \o formatNum(RAbs(Central(a.spinAxisStats)), 1) \o
           "deg " \o tilt \o "." >>
  ELSE << >>

\* Attack angle (important for driver)
AttackParts(r, a, clubName) ==
  IF Has(a.attackAngleStats) /\ includes(toLowerCase(clubName), "driver") THEN
    LET attack     == Central(a.attackAngleStats)
        attackNote ==
          IF RLess(attack, Int2Rat(-2))
            THEN "hitting down too much--try teeing higher or ball forward"
          ELSE IF RLess(attack, Int2Rat(2)) THEN "slightly ascending or level"
          ELSE IF RLess(attack, Int2Rat(5)) THEN "good ascending strike for distance"
          ELSE "very steep upward--may be sacrificing control"
    IN  << "Attack angle of " \o formatNum(attack, 1) \o "deg (" \o attackNote \o ")." >>
  ELSE << >>

\* consistencyScores of the overall consistency score
\* mutant: the carry-side score is divided by the central carry side, not 20
ConsistencyScores_SideByCentral(a) ==
  (IF Has(a.carryStats)
     THEN << Score(a.carryStats.stdDev, Central(a.carryStats)) >> ELSE << >>) \o
  (IF Has(a.carrySideStats)
     THEN << Score(a.carrySideStats.stdDev, Central(a.carrySideStats)) >> ELSE << >>) \o
  (IF Has(a.clubSpeedStats)
     THEN << Score(a.clubSpeedStats.stdDev, Central(a.clubSpeedStats)) >> ELSE << >>) \o
  (IF Has(a.spinRateStats)
     THEN << Score(a.spinRateStats.stdDev, Central(a.spinRateStats)) >> ELSE << >>)

ConsistencyScores(a) ==
  (IF Has(a.carryStats)
     THEN << Score(a.carryStats.stdDev, Central(a.carryStats)) >> ELSE << >>) \o
  (IF Has(a.carrySideStats)
     THEN << Score(a.carrySideStats.stdDev, Int2Rat(20)) >> ELSE << >>) \o
  (IF Has(a.clubSpeedStats)
     THEN << Score(a.clubSpeedStats.stdDev, Central(a.clubSpeedStats)) >> ELSE << >>) \o
  (IF Has(a.spinRateStats)
     THEN << Score(a.spinRateStats.stdDev, Central(a.spinRateStats)) >> ELSE << >>)

\* Overall consistency score
OverallParts(r, a, clubName) ==
  LET consistencyScores == ConsistencyScores(a)
  IN  IF Len(consistencyScores) >= 3 THEN
        LET overallConsistency ==
              IF MeanCVLess(consistencyScores, 3) THEN "Excellent"
              ELSE IF MeanCVLess(consistencyScores, 6) THEN "Good"
              ELSE IF MeanCVLess(consistencyScores, 10) THEN "Moderate"
              ELSE "Work needed on"
        IN  << overallConsistency \o " overall shot-to-shot repeatability." >>
      ELSE << >>

\* mutant: the launch clause is appended before the speed clause
SummaryParts_LaunchBeforeSpeed(r, a, clubName) ==
  DistanceParts(r, a, clubName) \o DispersionParts(r, a, clubName) \o
  PathFaceParts(r, a, clubName) \o LaunchParts(r, a, clubName) \o
  SpeedParts(r, a, clubName) \o SpinParts(r, a, clubName) \o
  SpinAxisParts(r, a, clubName) \o AttackParts(r, a, clubName) \o
  OverallParts(r, a, clubName)

\* the array parts at the return statement (at least 3 shots)
SummaryParts(r, a, clubName) ==
  DistanceParts(r, a, clubName) \o DispersionParts(r, a, clubName) \o
  PathFaceParts(r, a, clubName) \o SpeedParts(r, a, clubName) \o
  LaunchParts(r, a, clubName) \o SpinParts(r, a, clubName) \o
  SpinAxisParts(r, a, clubName) \o AttackParts(r, a, clubName) \o
  OverallParts(r, a, clubName)

RECURSIVE Join(_, _)
\* parts.join(sep)
Join(parts, sep) ==
  IF parts = << >> THEN ""
  ELSE IF Len(parts) = 1 THEN parts[1]
  ELSE parts[1] \o sep \o Join(Tail(parts), sep)

InsufficientSentence(shotCount) ==
  "Only " \o ToString(shotCount) \o " shot" \o (IF shotCount = 1 THEN "" ELSE "s") \o
  " recorded--more data needed for meaningful analysis."

generateShotSummary(r, strokes, clubName) ==
  LET analysis == analyzeClubGroup(r, strokes)
  IN  IF analysis.shotCount < 3 THEN InsufficientSentence(analysis.shotCount)
      ELSE Join(SummaryParts(r, analysis, clubName), " ")

\* stdDev / median < pct / 100 (no absolute value; / 0 gives Infinity or NaN)
RatioLess(stdDev, median, pct) ==
  IF RIsZero(median) THEN FALSE
  ELSE IF median.n < 0 THEN TRUE
  ELSE SqrtLess(stdDev, RMul(median, Pct(pct)))

\* the rules of generateKeyInsights after its gate: strengths, then areas to
\* work on
InsightRules(r, a, clubName) ==
  (IF Has(a.smashFactorStats) /\ RLeq(Pct(148), Central(a.smashFactorStats))
     THEN << "Strong ball striking efficiency" >> ELSE << >>) \o
  (IF Has(a.carrySideStats) /\ SqrtLess(a.carrySideStats.stdDev, Int2Rat(8))
     THEN << "Tight lateral dispersion" >> ELSE << >>) \o
  (IF Has(a.clubSpeedStats) /\ RatioLess(a.clubSpeedStats.stdDev, Central(a.clubSpeedStats), 3)
     THEN << "Very consistent swing speed" >> ELSE << >>) \o
  (IF Has(a.faceToPathStats) /\ RLess(Int2Rat(4), RAbs(Central(a.faceToPathStats)))
     THEN << IF Central(a.faceToPathStats).n > 0
               THEN "Face open to path (slice tendency)"
               ELSE "Face closed to path (hook tendency)" >>
     ELSE << >>) \o
  (IF Has(a.carrySideStats) /\ RLess(Int2Rat(10), RAbs(Central(a.carrySideStats)))
     THEN << "Consistent miss " \o
             (IF Central(a.carrySideStats).n < 0 THEN "left" ELSE "right") \o
             "--check alignment" >>
     ELSE << >>) \o
  (IF Has(a.spinRateStats) /\ includes(toLowerCase(clubName), "driver")
        /\ RLess(Int2Rat(3000), Central(a.spinRateStats))
     THEN << "High driver spin--losing distance" >> ELSE << >>) \o
  (IF Has(a.clubPathStats) /\ SqrtGreater(a.clubPathStats.stdDev, Int2Rat(4))
     THEN << "Inconsistent swing path" >> ELSE << >>)

\* mutant: the rules are alternatives, the first one that applies wins
generateKeyInsights_FirstRuleWins(r, strokes, clubName) ==
  LET a     == analyzeClubGroup(r, strokes)
      lines == InsightRules(r, a, clubName)
  IN  IF a.shotCount < 3 \/ lines = << >> THEN << >> ELSE << lines[1] >>

\* mutant: the insights gate lets batches of two shots through
generateKeyInsights_GateAtTwo(r, strokes, clubName) ==
  LET a == analyzeClubGroup(r, strokes)
  IN  IF a.shotCount < 2 THEN << >> ELSE InsightRules(r, a, clubName)

generateKeyInsights(r, strokes, clubName) ==
  LET a == analyzeClubGroup(r, strokes)
  IN  IF a.shotCount < 3 THEN << >> ELSE InsightRules(r, a, clubName)

\* ------------------------------------------------------------ ChartProjector
\* calculateMedian of ShotVisualizations.tsx: 0 for an empty array
calculateMedianChart(vals) ==
  IF Len(vals) = 0 THEN Int2Rat(0) ELSE calculateMedian(vals)

\* mutant: rounds down (Math.floor)
Ceil_RoundsDown(q) == q.n \div q.d

\* Math.ceil of a rational
Ceil(q) == -((-q.n) \div q.d)

Max2(a, b) == IF RLess(a, b) THEN b ELSE a

\* strokes.map((s, idx) => ...).filter(d => d !== null) for a point builder
ChartData(strokes, Valid(_), Point(_, _)) ==
  LET kept == SelectSeq([i \in 1..Len(strokes) |-> i],
                        LAMBDA i : Valid(getMeasurement(strokes[i])))
  IN  [j \in 1..Len(kept) |-> Point(getMeasurement(strokes[kept[j]]), kept[j])]

Column(data, field) == [i \in 1..Len(data) |-> data[i][field]]

\* the placeholder a chart returns below its minimum-data gate
Placeholder(text) == [placeholder |-> text]

IsPlaceholder(chart) == "placeholder" \in DOMAIN chart

DispersionValid(m) ==
  ~(OptField(m, "Carry") = Undefined \/ OptField(m, "CarrySide") = Undefined)

DispersionPoint(m, idx) ==
  [carry |-> m["Carry"], side |-> m["CarrySide"], total |-> m["Total"], idx |-> idx]

\* mutant: the lateral bound has no minimum of 15
DispersionChart_NoMinimumSwath(strokes) ==
  LET data == ChartData(strokes, DispersionValid, DispersionPoint)
  IN  IF Len(data) < 2 THEN Placeholder("Need 2+ shots for dispersion chart")
      ELSE
        LET carries     == Column(data, "carry")
            sides       == Column(data, "side")
            medianCarry == calculateMedianChart(carries)
            maxSide     == Max2(RAbs(MinSeq(sides)), RAbs(MaxSeq(sides)))
            carryRange  == RSub(MaxSeq(carries), MinSeq(carries))
            minCarry    == RSub(MinSeq(carries), RMul(carryRange, Rat(2, 10)))
            maxCarry    == RAdd(MaxSeq(carries), RMul(carryRange, Rat(2, 10)))
        IN  [data |-> data, medianCarry |-> medianCarry, maxSide |-> maxSide,
             minCarry |-> minCarry, maxCarry |-> maxCarry]

DispersionChart(strokes) ==
  LET data == ChartData(strokes, DispersionValid, DispersionPoint)
  IN  IF Len(data) < 2 THEN Placeholder("Need 2+ shots for dispersion chart")
      ELSE
        LET carries     == Column(data, "carry")
            sides       == Column(data, "side")
            medianCarry == calculateMedianChart(carries)
            maxSide     == Max2(Max2(RAbs(MinSeq(sides)), RAbs(MaxSeq(sides))), Int2Rat(15))
            carryRange  == RSub(MaxSeq(carries), MinSeq(carries))
            minCarry    == RSub(MinSeq(carries), RMul(carryRange, Rat(2, 10)))
            maxCarry    == RAdd(MaxSeq(carries), RMul(carryRange, Rat(2, 10)))
        IN  [data |-> data, medianCarry |-> medianCarry, maxSide |-> maxSide,
             minCarry |-> minCarry, maxCarry |-> maxCarry]

ImpactValid(m) ==
  ~(OptField(m, "ClubPath") = Undefined \/ OptField(m, "FaceAngle") = Undefined)

ImpactPoint(m, idx) ==
  [path |-> m["ClubPath"], face |-> m["FaceAngle"],
   faceToPath |-> IF m["FaceToPath"] # Undefined THEN m["FaceToPath"]
                  ELSE RSub(m["FaceAngle"], m["ClubPath"]),
   attackAngle |-> m["AttackAngle"], idx |-> idx]

ImpactChart(strokes) ==
  LET data == ChartData(strokes, ImpactValid, ImpactPoint)
  IN  IF Len(data) < 2 THEN Placeholder("Need 2+ shots with impact data")
      ELSE
        LET allAngles  == Column(data, "path") \o Column(data, "face")
            maxAngle   == Max2(Max2(RAbs(MinSeq(allAngles)), RAbs(MaxSeq(allAngles))), Int2Rat(8))
            bound      == Ceil(RDiv(maxAngle, Int2Rat(2))) * 2
            medianPath == calculateMedianChart(Column(data, "path"))
            medianFace == calculateMedianChart(Column(data, "face"))
        IN  [data |-> data, bound |-> bound, medianPath |-> medianPath,
             medianFace |-> medianFace]

LaunchValid(m) ==
  ~(OptField(m, "LaunchAngle") = Undefined \/ OptField(m, "BallSpeed") = Undefined)

\* mutant: the point keeps the 0-based array index (idx: idx)
LaunchPoint_ZeroBased(m, idx) ==
  [angle |-> m["LaunchAngle"], speed |-> m["BallSpeed"], spin |-> m["SpinRate"],
   smash |-> m["SmashFactor"], clubSpeed |-> m["ClubSpeed"], idx |-> idx - 1]

LaunchPoint(m, idx) ==
  [angle |-> m["LaunchAngle"], speed |-> m["BallSpeed"], spin |-> m["SpinRate"],
   smash |-> m["SmashFactor"], clubSpeed |-> m["ClubSpeed"], idx |-> idx]

\* mutant: the gate lets a single shot through (data.length < 1)
LaunchChart_GateAtOne(strokes) ==
  LET data == ChartData(strokes, LaunchValid, LaunchPoint)
  IN  IF Len(data) < 1 THEN Placeholder("Need 2+ shots with launch data")
      ELSE
        LET angles      == Column(data, "angle")
            speeds      == Column(data, "speed")
            minAngle    == Max2(Int2Rat(0), RSub(MinSeq(angles), Int2Rat(2)))
            maxAngle    == RAdd(MaxSeq(angles), Int2Rat(2))
            minSpeed    == RSub(MinSeq(speeds), Int2Rat(5))
            maxSpeed    == RAdd(MaxSeq(speeds), Int2Rat(5))
            medianAngle == calculateMedianChart(angles)
            medianSpeed == calculateMedianChart(speeds)
        IN  [data |-> data, minAngle |-> minAngle, maxAngle |-> maxAngle,
             minSpeed |-> minSpeed, maxSpeed |-> maxSpeed,
             medianAngle |-> medianAngle, medianSpeed |-> medianSpeed]

LaunchChart(strokes) ==
  LET data == ChartData(strokes, LaunchValid, LaunchPoint)
  IN  IF Len(data) < 2 THEN Placeholder("Need 2+ shots with launch data")
      ELSE
        LET angles      == Column(data, "angle")
            speeds      == Column(data, "speed")
            minAngle    == Max2(Int2Rat(0), RSub(MinSeq(angles), Int2Rat(2)))
            maxAngle    == RAdd(MaxSeq(angles), Int2Rat(2))
            minSpeed    == RSub(MinSeq(speeds), Int2Rat(5))
            maxSpeed    == RAdd(MaxSeq(speeds), Int2Rat(5))
            medianAngle == calculateMedianChart(angles)
            medianSpeed == calculateMedianChart(speeds)
        IN  [data |-> data, minAngle |-> minAngle, maxAngle |-> maxAngle,
             minSpeed |-> minSpeed, maxSpeed |-> maxSpeed,
             medianAngle |-> medianAngle, medianSpeed |-> medianSpeed]

TrajectoryValid(m) ==
  ~(\/ OptField(m, "Carry") = Undefined
    \/ OptField(m, "MaxHeight") = Undefined
    \/ OptField(m, "LaunchAngle") = Undefined)

TrajectoryPoint(m, idx) ==
  [carry |-> m["Carry"], height |-> m["MaxHeight"], launch |-> m["LaunchAngle"],
   landing |-> IF m["LandingAngle"] # Undefined THEN m["LandingAngle"] ELSE Int2Rat(40),
   hangTime |-> m["HangTime"], total |-> m["Total"], idx |-> idx]

\* const steps = 30 in generatePath
Steps == 30

\* mutant: the loop stops before the landing point (i < steps)
generatePath_StopsShort(carry, height) ==
  [k \in 1..Steps |->
     LET i == k - 1
     IN  [x |-> Rat(i * carry.n, Steps * carry.d),
          h |-> Rat(4 * height.n * i * (Steps - i), height.d * Steps * Steps)]]

\* the points of generatePath before scaling: for i = 0..steps, t = i / steps,
\* x = t * carry and h = 4 * height * t * (1 - t) (entry i + 1 of the
\* sequence), each as one fraction: t * carry = i * carry / steps and
\* 4 * height * t * (1 - t) = 4 * height * i * (steps - i) / steps^2
generatePath(carry, height) ==
  [k \in 1..(Steps + 1) |->
     LET i == k - 1
     IN  [x |-> Rat(i * carry.n, Steps * carry.d),
          h |-> Rat(4 * height.n * i * (Steps - i), height.d * Steps * Steps)]]

TrajectoryChart(strokes) ==
  LET data == ChartData(strokes, TrajectoryValid, TrajectoryPoint)
  IN  IF Len(data) < 1 THEN Placeholder("Need trajectory data")
      ELSE
        LET maxCarry     == MaxSeq(Column(data, "carry"))
            maxHeight    == MaxSeq(Column(data, "height"))
            medianCarry  == calculateMedianChart(Column(data, "carry"))
            medianHeight == calculateMedianChart(Column(data, "height"))
        IN  [data |-> data, maxCarry |-> maxCarry, maxHeight |-> maxHeight,
             medianCarry |-> medianCarry, medianHeight |-> medianHeight,
             medianPath |-> generatePath(medianCarry, medianHeight),
             paths |-> [j \in 1..Len(data) |->
                          generatePath(data[j].carry, data[j].height)]]

\* the colour of a dispersion dot
DispersionDotColor(d) ==
  IF RLess(RAbs(d.side), Int2Rat(10)) THEN "var(--green-500)"
  ELSE IF RLess(d.side, Int2Rat(0)) THEN "var(--red)" ELSE "var(--blue)"

\* the colour of an impact dot
ImpactDotColor(d) ==
  IF RLess(RAbs(d.faceToPath), Int2Rat(2)) THEN "var(--green-500)"
  ELSE IF RLess(d.faceToPath, Int2Rat(0)) THEN "var(--red)" ELSE "var(--blue)"

\* shapeLabel of the impact tooltip
ImpactShapeLabel(d) ==
  IF RLess(d.faceToPath, Int2Rat(-2)) THEN "draw"
  ELSE IF RLess(Int2Rat(2), d.faceToPath) THEN "fade" ELSE "straight"

\* mutant: the cutoffs 2500 and 3500 belong to the outer bands
LaunchDotColor_InclusiveBands(d) ==
  IF d.spin = Undefined THEN "var(--green-500)"
  ELSE IF RLeq(d.spin, Int2Rat(2500)) THEN "var(--blue)"
  ELSE IF RLeq(Int2Rat(3500), d.spin) THEN "var(--red)"
  ELSE "var(--green-500)"

\* the colour of a launch dot, by spin if available
LaunchDotColor(d) ==
  IF d.spin = Undefined THEN "var(--green-500)"
  ELSE IF RLess(d.spin, Int2Rat(2500)) THEN "var(--blue)"
  ELSE IF RLess(Int2Rat(3500), d.spin) THEN "var(--red)"
  ELSE "var(--green-500)"

\* the rows of the shots table: the # cell (idx + 1) and the record
\* (stroke.Measurement || stroke.NormalizedMeasurement) whose fields the other
\* cells print
ShotsTable(strokes) ==
  [i \in 1..Len(strokes) |->
     [num |-> i,
      m   |-> IF strokes[i].Measurement # Undefined THEN strokes[i].Measurement
              ELSE strokes[i].NormalizedMeasurement]]

\* what the panel renders: null below 2 strokes, else the four charts
Null == [null |-> TRUE]

\* mutant: the panel renders for a single stroke (strokes.length < 1)
ShotVisualizationPanel_GateAtOne(strokes) ==
  IF Len(strokes) < 1 THEN Null
  ELSE [dispersion |-> DispersionChart(strokes), impact |-> ImpactChart(strokes),
        launch |-> LaunchChart(strokes), trajectory |-> TrajectoryChart(strokes)]

ShotVisualizationPanel(strokes) ==
  IF Len(strokes) < 2 THEN Null
  ELSE [dispersion |-> DispersionChart(strokes), impact |-> ImpactChart(strokes),
        launch |-> LaunchChart(strokes), trajectory |-> TrajectoryChart(strokes)]

\* ------------------------------------------------------------------ state
VARIABLES
  rule,      \* which copy of the engine is evaluated: "median" or "avg"
  values,    \* argument of calculateStats
  stats,     \* what calculateStats returned, Pending before the call
  strokes,   \* group.Strokes of the club group shown by ClubGroupView
  clubName,  \* group.Club
  pc,        \* the statement ClubGroupView executes next
  analysis,  \* the ClubAnalysis computed inside generateShotSummary
  summary,   \* what generateShotSummary returned
  insights,  \* what generateKeyInsights returned
  table,     \* the rows of the shots table ClubGroupView returns
  panel,     \* what ShotVisualizationPanel rendered
  call,      \* a single call of an engine function: its name and arguments
  ret        \* what that call returned, Pending before it

VARIABLES
  session,        \* the session prop of ShotChart
  effectPending,  \* the effect of ShotChart has to run (its dependencies changed)
  scorecard,      \* ShotChart state: scorecard
  activityReport, \* ShotChart state: activityReport
  loading,        \* ShotChart state: loading
  error,          \* ShotChart state: error
  fetches,        \* the trackmanApi promises that have not settled
  nextFetch       \* number of the next promise

VARIABLES
  storage,   \* chrome.storage.local: the value under trackmanAuth
  handlers,  \* the message handlers of the worker that wait for a callback
  log,       \* the responses sent, in the order sent
  upstream,  \* the fetch calls made to the GraphQL API
  nextId     \* number of the next message

shotChartVars == <<session, effectPending, scorecard, activityReport, loading, error,
                   fetches, nextFetch>>

workerVars == <<storage, handlers, log, upstream, nextId>>

appVars == <<shotChartVars, workerVars>>

vars == <<rule, values, stats, strokes, clubName, pc, analysis, summary, insights,
          table, panel, call, ret, appVars>>

statsVars == <<values, stats>>

callVars == <<call, ret>>

engineVars == <<strokes, clubName, pc, analysis, summary, insights, table, panel>>

Pending == [pending |-> TRUE]

Rules == {"median", "avg"}

StatsIdle == values = << >> /\ stats = Pending

\* ShotChart is not mounted
ShotChartIdle ==
  /\ session = Pending
  /\ effectPending = FALSE
  /\ scorecard = Pending
  /\ activityReport = Pending
  /\ loading = FALSE
  /\ error = Pending
  /\ fetches = {}
  /\ nextFetch = 0

\* the worker has received no message
WorkerIdle ==
  /\ storage = Pending
  /\ handlers = {}
  /\ log = << >>
  /\ upstream = {}
  /\ nextId = 0

AppIdle == ShotChartIdle /\ WorkerIdle

NoCall == [fn |-> "none"]

\* a returned value (wrapped, so that it compares with Pending)
Returned(v) == [value |-> v]

CallIdle == call = NoCall /\ ret = Pending

EngineIdle ==
  /\ strokes = << >>
  /\ clubName = ""
  /\ pc = "idle"
  /\ analysis = Pending
  /\ summary = Pending
  /\ insights = Pending
  /\ table = Pending
  /\ panel = Pending

\* ------------------------------------------------- SpecStats: calculateStats
Samples == {Int2Rat(k) : k \in -MaxVal..MaxVal}

RECURSIVE SeqsUpTo(_, _)
SeqsUpTo(S, n) ==
  IF n = 0 THEN {<< >>}
  ELSE LET shorter == SeqsUpTo(S, n - 1)
       IN  shorter \cup {Append(s, x) : s \in {t \in shorter : Len(t) = n - 1}, x \in S}

InitStats ==
  /\ rule \in Rules
  /\ values \in SeqsUpTo(Samples, MaxLen)
  /\ stats = Pending
  /\ EngineIdle
  /\ CallIdle
  /\ AppIdle

CallCalculateStats ==
  /\ stats = Pending
  /\ pc = "idle"
  /\ call = NoCall
  /\ stats' = StatsOf(rule, values)
  /\ values' = IF rule = "median" THEN ArrayAfterMedian(values) ELSE values
  /\ UNCHANGED rule
  /\ UNCHANGED engineVars
  /\ UNCHANGED callVars
  /\ UNCHANGED appVars

NextStats == CallCalculateStats

SpecStats == InitStats /\ [][NextStats]_vars

\* ------------------------------------------ SpecEngine: ClubGroupView render
\* whole-shot profiles; SmashFactor is given in hundredths
ProfileInts ==
  << [Carry |-> 250, Total |-> 270, CarrySide |-> 4, TotalSide |-> 5,
      ClubSpeed |-> 100, BallSpeed |-> 148, SmashFactor |-> 148,
      LaunchAngle |-> 12, LaunchDirection |-> 1, SpinRate |-> 2400,
      SpinAxis |-> 3, ClubPath |-> 1, FaceAngle |-> 0, FaceToPath |-> -1,
      AttackAngle |-> 3, MaxHeight |-> 30, HangTime |-> 6,
      LandingAngle |-> 38, DynamicLoft |-> 14],
     [Carry |-> 220, Total |-> 232, CarrySide |-> 30, TotalSide |-> 36,
      ClubSpeed |-> 97, BallSpeed |-> 140, SmashFactor |-> 144,
      LaunchAngle |-> 16, LaunchDirection |-> 3, SpinRate |-> 3400,
      SpinAxis |-> 12, ClubPath |-> 5, FaceAngle |-> 11, FaceToPath |-> 6,
      AttackAngle |-> -3, MaxHeight |-> 38, HangTime |-> 7,
      LandingAngle |-> 45, DynamicLoft |-> 18],
     [Carry |-> 256, Total |-> 281, CarrySide |-> -14, TotalSide |-> -19,
      ClubSpeed |-> 103, BallSpeed |-> 154, SmashFactor |-> 150,
      LaunchAngle |-> 8, LaunchDirection |-> -2, SpinRate |-> 1900,
      SpinAxis |-> -8, ClubPath |-> -4, FaceAngle |-> -7, FaceToPath |-> -3,
      AttackAngle |-> 6, MaxHeight |-> 22, HangTime |-> 5,
      LandingAngle |-> 30, DynamicLoft |-> 10] >>

Profile(p) ==
  [k \in MeasurementKeys |->
     IF k = "SmashFactor" THEN Rat(ProfileInts[p][k], 100) ELSE Int2Rat(ProfileInts[p][k])]

Profiles == 1..Len(ProfileInts)

\* the measurement m with only the fields in keep
Restrict(m, keep) == [k \in MeasurementKeys |-> IF k \in keep THEN m[k] ELSE Undefined]

Stroke(raw, normalized) == [Measurement |-> raw, NormalizedMeasurement |-> normalized]

\* the fields a partial raw record lacks in LayoutPool
PartialLacks == {"CarrySide", "SpinRate", "FaceAngle", "BallSpeed"}

\* strokes that differ in which of the two records is present and complete
LayoutPool ==
  { Stroke(Profile(1), Undefined),
    Stroke(Profile(2), Undefined),
    Stroke(Undefined, Profile(3)),
    Stroke(Restrict(Profile(1), MeasurementKeys \ PartialLacks), Profile(1)),
    Stroke(Profile(2), Profile(3)),
    Stroke(Undefined, Undefined) }

\* the Measurement keys the summary and the insights read
SummaryKeys ==
  {"Carry", "CarrySide", "ClubPath", "FaceAngle", "FaceToPath", "ClubSpeed",
   "SmashFactor", "LaunchAngle", "SpinRate", "SpinAxis", "AttackAngle"}

\* the keys of the overall consistency score
ScoreKeys == {"Carry", "CarrySide", "ClubSpeed", "SpinRate"}

\* sets of keys a session reports: all, all but one summary key, all but two
\* of the score keys, none of the summary keys
ReportedSets ==
  { MeasurementKeys \ hidden :
      hidden \in { h \in SUBSET SummaryKeys : Cardinality(h) <= 1 }
                 \cup { h \in SUBSET ScoreKeys : Cardinality(h) = 2 }
                 \cup { SummaryKeys } }

\* the choices of profiles for a batch, one listing per choice (the order of
\* the shots is varied by the LayoutPool batches)
ProfileChoices ==
  { ps \in SeqsUpTo(Profiles, MaxShots) : \A i \in 1..(Len(ps) - 1) : ps[i] <= ps[i + 1] }

\* strokes with a raw record only, all reporting the same keys
ReportedBatches ==
  { [i \in 1..Len(ps) |-> Stroke(Restrict(Profile(ps[i]), rep), Undefined)] :
      ps \in ProfileChoices, rep \in ReportedSets }

Clubs == {"Driver", "DRIVER", "7Iron", "Sand WEDGE", "3Wood"}

\* the keys whose clauses and insights read the club name
ClubKeys == {"SpinRate", "LaunchAngle", "SmashFactor", "ClubSpeed", "AttackAngle"}

\* the batches every club name is tried on: all keys reported, or all but
\* one of the keys a club-sensitive clause needs
ClubBatches ==
  { [i \in 1..Len(ps) |-> Stroke(Restrict(Profile(ps[i]), rep), Undefined)] :
      ps \in ProfileChoices,
      rep \in { MeasurementKeys \ hidden :
                  hidden \in { h \in SUBSET ClubKeys : Cardinality(h) <= 1 } } }

\* a stroke whose raw record reports the given values and nothing else
Reporting(fields) ==
  Stroke([k \in MeasurementKeys |->
            IF k \in DOMAIN fields THEN Int2Rat(fields[k]) ELSE Undefined], Undefined)

\* batches of 3 or more strokes
Analysable(pool) == {b \in SeqsUpTo(pool, MaxShots) : Len(b) >= 3}

\* strokes that report a carry side around the dispersion cutoffs, or nothing
\* strokes for the chart bounds and colours: lateral offsets -3, 4, 2 and
\* beyond 15, path and face extremes 9 and -3 and beyond, face-to-path given
\* (2, -2) or left to the chart, launch angles below 2 and below 0, spin
\* rates 2500, 3500, 3501 and none
ChartStrokes ==
  { Reporting([Carry |-> 150, CarrySide |-> -3, ClubPath |-> 9, FaceAngle |-> 1,
               LaunchAngle |-> 1, BallSpeed |-> 140, SpinRate |-> 2500,
               MaxHeight |-> 30]),
    Reporting([Carry |-> 160, CarrySide |-> 4, ClubPath |-> -3, FaceAngle |-> 2,
               FaceToPath |-> 2, LaunchAngle |-> 12, BallSpeed |-> 150,
               SpinRate |-> 3500, MaxHeight |-> 24]),
    Reporting([Carry |-> 150, CarrySide |-> 2, ClubPath |-> 0, FaceAngle |-> -3,
               FaceToPath |-> -2, LaunchAngle |-> -3, BallSpeed |-> 120,
               MaxHeight |-> 6]),
    Reporting([Carry |-> 200, CarrySide |-> -16, ClubPath |-> 8, FaceAngle |-> -11,
               LaunchAngle |-> 10, BallSpeed |-> 145, SpinRate |-> 3501,
               MaxHeight |-> 30]) }

\* batches the panel renders (2 or more strokes)
Renderable(pool) == {b \in SeqsUpTo(pool, MaxShots) : Len(b) >= 2}

\* lateral offsets 10, 20 and 36 apart, and around +/-5 on average
SideOffsets == <<-13, -10, 0, 10, 23>>

\* stroke 0 has no record, stroke k reports only the k-th lateral offset
SideStroke(k) ==
  IF k = 0 THEN Stroke(EmptyMeasurement, Undefined)
  ELSE Reporting([CarrySide |-> SideOffsets[k]])

SideStrokes == {SideStroke(k) : k \in 0..Len(SideOffsets)}

\* batches of 3 or more of these strokes, one listing per choice
SideBatches ==
  { [i \in 1..Len(c) |-> SideStroke(c[i])] :
      c \in { c \in SeqsUpTo(0..Len(SideOffsets), MaxShots) :
                Len(c) >= 3 /\ \A i \in 1..(Len(c) - 1) : c[i] <= c[i + 1] } }

InitEngine ==
  /\ rule \in Rules
  /\ StatsIdle
  /\ CallIdle
  /\ \/ strokes \in SeqsUpTo(LayoutPool, MaxShots) /\ clubName = "Driver"
     \/ strokes \in ReportedBatches /\ clubName = "Driver"
     \/ strokes \in ClubBatches /\ clubName \in Clubs
     \/ strokes \in SideBatches /\ clubName = "7Iron"
     \/ strokes \in Renderable(ChartStrokes) /\ clubName = "7Iron"
  /\ pc = "summary"
  /\ analysis = Pending
  /\ summary = Pending
  /\ insights = Pending
  /\ table = Pending
  /\ panel = Pending
  /\ AppIdle

\* const summary = generateShotSummary(strokes, group.Club)
CallGenerateShotSummary ==
  /\ pc = "summary"
  /\ analysis' = analyzeClubGroup(rule, strokes)
  /\ summary' = generateShotSummary(rule, strokes, clubName)
  /\ pc' = "insights"
  /\ UNCHANGED <<rule, values, stats, strokes, clubName, insights, table, panel, call, ret>>
  /\ UNCHANGED appVars

\* const insights = generateKeyInsights(strokes, group.Club)
CallGenerateKeyInsights ==
  /\ pc = "insights"
  /\ insights' = generateKeyInsights(rule, strokes, clubName)
  /\ pc' = "table"
  /\ UNCHANGED <<rule, values, stats, strokes, clubName, analysis, summary, table, panel,
                 call, ret>>
  /\ UNCHANGED appVars

\* strokes.map((stroke, idx) => <tr>...) in the JSX ClubGroupView returns
RenderShotsTable ==
  /\ pc = "table"
  /\ table' = ShotsTable(strokes)
  /\ pc' = "panel"
  /\ UNCHANGED <<rule, values, stats, strokes, clubName, analysis, summary, insights,
                 panel, call, ret>>
  /\ UNCHANGED appVars

\* <ShotVisualizationPanel strokes={strokes} />
RenderShotVisualizationPanel ==
  /\ pc = "panel"
  /\ panel' = ShotVisualizationPanel(strokes)
  /\ pc' = "done"
  /\ UNCHANGED <<rule, values, stats, strokes, clubName, analysis, summary, insights,
                 table, call, ret>>
  /\ UNCHANGED appVars

NextEngine ==
  \/ CallGenerateShotSummary
  \/ CallGenerateKeyInsights
  \/ RenderShotsTable
  \/ RenderShotVisualizationPanel

SpecEngine == InitEngine /\ [][NextEngine]_vars

\* ------------------------------------------- SpecCalls: single function calls
ShapeCalls ==
  { [fn |-> "getShotShape", clubPath |-> Int2Rat(p), faceToPath |-> Rat(k, 100)] :
      p \in -MaxPath..MaxPath, k \in -MaxCenti..MaxCenti }

\* dispersions k / 10 and sqrt(k), central values around and at zero
ConsistencyCalls ==
  { [fn |-> "getConsistencyRating", stdDev |-> Sqrt(q), median |-> Int2Rat(m)] :
      q \in {Rat(k * k, 100) : k \in 0..MaxDeci} \cup {Int2Rat(k) : k \in 0..MaxDeci},
      m \in {-100, -50, 0, 50, 100} }

\* one plotted point of a chart, with the field its colour depends on:
\* lateral offsets k / 10, face-to-path k / 100, spin rates around 2500 and
\* 3500 or none
DotCalls ==
  { [fn |-> "DispersionChart dot", d |-> [side |-> Rat(k, 10)]] :
      k \in -MaxDeci..MaxDeci }
  \cup { [fn |-> "ImpactChart dot", d |-> [faceToPath |-> Rat(k, 100)]] :
      k \in -MaxCenti..MaxCenti }
  \cup { [fn |-> "LaunchChart dot", d |-> [spin |-> v]] :
      v \in {Undefined} \cup {Int2Rat(b + k) : b \in {2500, 3500}, k \in -MaxDeci..MaxDeci} }

InitCalls ==
  /\ rule \in Rules
  /\ StatsIdle
  /\ EngineIdle
  /\ call \in ShapeCalls \cup ConsistencyCalls \cup DotCalls
  /\ ret = Pending
  /\ AppIdle

CallGetShotShape ==
  /\ call.fn = "getShotShape"
  /\ ret = Pending
  /\ ret' = Returned(getShotShape(call.clubPath, call.faceToPath))
  /\ UNCHANGED <<rule, call>>
  /\ UNCHANGED statsVars
  /\ UNCHANGED engineVars
  /\ UNCHANGED appVars

CallGetConsistencyRating ==
  /\ call.fn = "getConsistencyRating"
  /\ ret = Pending
  /\ ret' = Returned(getConsistencyRating(call.stdDev, call.median))
  /\ UNCHANGED <<rule, call>>
  /\ UNCHANGED statsVars
  /\ UNCHANGED engineVars
  /\ UNCHANGED appVars

\* a chart draws one of its points
RenderDot ==
  /\ call.fn \in {"DispersionChart dot", "ImpactChart dot", "LaunchChart dot"}
  /\ ret = Pending
  /\ ret' = Returned([color |-> IF call.fn = "DispersionChart dot"
                                 THEN DispersionDotColor(call.d)
                                 ELSE IF call.fn = "ImpactChart dot"
                                 THEN ImpactDotColor(call.d)
                                 ELSE LaunchDotColor(call.d)])
  /\ UNCHANGED <<rule, call>>
  /\ UNCHANGED statsVars
  /\ UNCHANGED engineVars
  /\ UNCHANGED appVars

\* handleMouseEnter of ImpactChart on a drawn point: the tooltip's shape label
ImpactMouseEnter ==
  /\ call.fn = "ImpactChart dot"
  /\ ret # Pending
  /\ DOMAIN ret.value = {"color"}
  /\ ret' = Returned([color |-> ret.value.color,
                       shapeLabel |-> ImpactShapeLabel(call.d)])
  /\ UNCHANGED <<rule, call>>
  /\ UNCHANGED statsVars
  /\ UNCHANGED engineVars
  /\ UNCHANGED appVars

NextCalls ==
  \/ CallGetShotShape
  \/ CallGetConsistencyRating
  \/ RenderDot
  \/ ImpactMouseEnter

SpecCalls == InitCalls /\ [][NextCalls]_vars

\* ------------------------------------------------- SpecShotChart: ShotChart
\* the sessions of the list: two rounds with a scorecard, two shot analyses
\* with a report link, one range practice
Sessions ==
  { [id |-> "round-1", kind |-> "COURSE_PLAY", scorecardId |-> "card-1"],
    [id |-> "round-2", kind |-> "COURSE_PLAY", scorecardId |-> "card-2"],
    [id |-> "shots-1", kind |-> "SHOT_ANALYSIS", reportLink |-> "link-1"],
    [id |-> "shots-2", kind |-> "SHOT_ANALYSIS", reportLink |-> "link-2"],
    [id |-> "range-1", kind |-> "RANGE_PRACTICE"] }

\* session.kind === 'COURSE_PLAY' && session.scorecard?.id
isCoursePlay(s) == s.kind = "COURSE_PLAY" /\ "scorecardId" \in DOMAIN s

\* session.kind === 'SHOT_ANALYSIS' && session.reportLink
isShotAnalysis(s) == s.kind = "SHOT_ANALYSIS" /\ "reportLink" \in DOMAIN s

\* <ShotChart session={selectedSession} /> is mounted with the first selection
InitShotChart ==
  /\ rule = "median"
  /\ StatsIdle
  /\ EngineIdle
  /\ CallIdle
  /\ WorkerIdle
  /\ session \in Sessions
  /\ effectPending = TRUE
  /\ scorecard = Null
  /\ activityReport = Null
  /\ loading = FALSE
  /\ error = Null
  /\ fetches = {}
  /\ nextFetch = 1

ShotChartFrame ==
  /\ UNCHANGED <<rule, call, ret>>
  /\ UNCHANGED statsVars
  /\ UNCHANGED engineVars
  /\ UNCHANGED workerVars

\* onSelectSession: ShotChart renders again with another session and the state
\* it has; the effect runs after the render
SelectSession ==
  /\ session # Pending
  /\ ~effectPending
  /\ nextFetch <= MaxFetches
  /\ \E s \in Sessions \ {session} : session' = s
  /\ effectPending' = TRUE
  /\ UNCHANGED <<scorecard, activityReport, loading, error, fetches, nextFetch>>
  /\ ShotChartFrame

\* the body of useEffect
RunEffect ==
  /\ effectPending
  /\ effectPending' = FALSE
  /\ scorecard' = Null
  /\ activityReport' = Null
  /\ error' = Null
  /\ IF isCoursePlay(session) THEN
        /\ loading' = TRUE
        /\ fetches' = fetches \cup {[n |-> nextFetch, api |-> "getScorecard",
                                       arg |-> session.scorecardId]}
        /\ nextFetch' = nextFetch + 1
     ELSE IF isShotAnalysis(session) THEN
        /\ loading' = TRUE
        /\ fetches' = fetches \cup {[n |-> nextFetch, api |-> "getActivityReport",
                                       arg |-> session.reportLink]}
        /\ nextFetch' = nextFetch + 1
     ELSE UNCHANGED <<loading, fetches, nextFetch>>
  /\ UNCHANGED session
  /\ ShotChartFrame

\* a promise fulfils: .then(setScorecard) or .then(setActivityReport), then
\* .finally(() => setLoading(false)); the data is that of the request
FetchFulfilled ==
  /\ \E f \in fetches :
       /\ fetches' = fetches \ {f}
       /\ IF f.api = "getScorecard"
          THEN scorecard' = [scorecardId |-> f.arg] /\ UNCHANGED activityReport
          ELSE activityReport' = [reportLink |-> f.arg] /\ UNCHANGED scorecard
  /\ loading' = FALSE
  /\ UNCHANGED <<session, effectPending, error, nextFetch>>
  /\ ShotChartFrame

\* a promise rejects: .catch(err => setError(err.message)), then .finally
FetchRejected ==
  /\ \E f \in fetches :
       /\ fetches' = fetches \ {f}
       /\ error' = [message |-> f.api \o " failed"]
  /\ loading' = FALSE
  /\ UNCHANGED <<session, effectPending, scorecard, activityReport, nextFetch>>
  /\ ShotChartFrame

NextShotChart ==
  \/ SelectSession
  \/ RunEffect
  \/ FetchFulfilled
  \/ FetchRejected

SpecShotChart == InitShotChart /\ [][NextShotChart]_vars

\* ---------------------------------------- SpecWorker: background worker
\* the tokens the content script forwards
Tokens == {"Bearer one", "Bearer two"}

\* the messages the worker handles here: TOKEN_CAPTURED from the content
\* script, GET_STATUS and CLEAR_TOKEN from the popup, GET_TOKEN and
\* GRAPHQL_REQUEST from the web app
Messages ==
  { [type |-> "TOKEN_CAPTURED", token |-> t] : t \in Tokens }
  \cup { [type |-> ty] : ty \in {"GET_STATUS", "CLEAR_TOKEN", "GET_TOKEN", "GRAPHQL_REQUEST"} }

\* what fetch and response.json() can do in the GraphQL proxy
FetchOutcomes == {"fetch rejects", "not ok", "json rejects", "errors", "data"}

InitWorker ==
  /\ rule = "median"
  /\ StatsIdle
  /\ EngineIdle
  /\ CallIdle
  /\ ShotChartIdle
  /\ storage \in {Undefined} \cup {[token |-> t, capturedAt |-> 0] : t \in Tokens}
  /\ handlers = {}
  /\ log = << >>
  /\ upstream = {}
  /\ nextId = 1

WorkerFrame ==
  /\ UNCHANGED <<rule, call, ret>>
  /\ UNCHANGED statsVars
  /\ UNCHANGED engineVars
  /\ UNCHANGED shotChartVars

\* sendResponse(response) of the handler h
Respond(h, response) ==
  log' = Append(log, [id |-> h.id, request |-> h.request, response |-> response])

\* a listener runs on a message: it calls chrome.storage.local (get, set or
\* remove) with its callback and returns true; capturedAt is the sender's
\* Date.now(), here the number of the message
ReceiveMessage ==
  /\ storage # Pending
  /\ nextId <= MaxMessages
  /\ \E msg \in Messages :
       handlers' = handlers \cup
         {[id |-> nextId, waits |-> "storage",
           request |-> IF msg.type = "TOKEN_CAPTURED"
                       THEN [type |-> msg.type, token |-> msg.token, capturedAt |-> nextId]
                       ELSE msg]}
  /\ nextId' = nextId + 1
  /\ UNCHANGED <<storage, log, upstream>>
  /\ WorkerFrame

\* chrome.storage.local.set({ trackmanAuth: tokenData }, callback)
TokenCapturedCallback ==
  /\ \E h \in handlers :
       /\ h.waits = "storage"
       /\ h.request.type = "TOKEN_CAPTURED"
       /\ storage' = [token |-> h.request.token, capturedAt |-> h.request.capturedAt]
       /\ Respond(h, [success |-> TRUE])
       /\ handlers' = handlers \ {h}
  /\ UNCHANGED <<upstream, nextId>>
  /\ WorkerFrame

\* mutant: the token stays in storage
ClearTokenCallback_KeepsToken ==
  /\ \E h \in handlers :
       /\ h.waits = "storage"
       /\ h.request.type = "CLEAR_TOKEN"
       /\ Respond(h, [success |-> TRUE])
       /\ handlers' = handlers \ {h}
  /\ UNCHANGED <<storage, upstream, nextId>>
  /\ WorkerFrame

\* chrome.storage.local.remove(['trackmanAuth'], callback)
ClearTokenCallback ==
  /\ \E h \in handlers :
       /\ h.waits = "storage"
       /\ h.request.type = "CLEAR_TOKEN"
       /\ storage' = Undefined
       /\ Respond(h, [success |-> TRUE])
       /\ handlers' = handlers \ {h}
  /\ UNCHANGED <<upstream, nextId>>
  /\ WorkerFrame

\* the callback of chrome.storage.local.get in GET_STATUS
GetStatusCallback ==
  /\ \E h \in handlers :
       /\ h.waits = "storage"
       /\ h.request.type = "GET_STATUS"
       /\ Respond(h, IF storage # Undefined
                      THEN [connected |-> TRUE, capturedAt |-> storage.capturedAt]
                      ELSE [connected |-> FALSE])
       /\ handlers' = handlers \ {h}
  /\ UNCHANGED <<storage, upstream, nextId>>
  /\ WorkerFrame

\* the callback of chrome.storage.local.get in GET_TOKEN
GetTokenCallback ==
  /\ \E h \in handlers :
       /\ h.waits = "storage"
       /\ h.request.type = "GET_TOKEN"
       /\ Respond(h, IF storage # Undefined
                      THEN [success |-> TRUE, token |-> storage.token,
                            capturedAt |-> storage.capturedAt]
                      ELSE [success |-> FALSE,
                            error |-> "No token available. Please log in to Trackman portal."])
       /\ handlers' = handlers \ {h}
  /\ UNCHANGED <<storage, upstream, nextId>>
  /\ WorkerFrame

\* !result.trackmanAuth?.token
NoToken(auth) == auth = Undefined \/ auth.token = ""

\* mutant: the proxy fetches without looking at the token
GraphqlStorageCallback_NoTokenCheck ==
  /\ \E h \in handlers :
       /\ h.waits = "storage"
       /\ h.request.type = "GRAPHQL_REQUEST"
       /\ upstream' = upstream \cup
            {[id |-> h.id,
              Authorization |-> IF storage = Undefined THEN "undefined" ELSE storage.token]}
       /\ handlers' = (handlers \ {h}) \cup {[h EXCEPT !.waits = "fetch"]}
  /\ UNCHANGED <<storage, log, nextId>>
  /\ WorkerFrame

\* the callback of chrome.storage.local.get in GRAPHQL_REQUEST, up to the
\* first await: without a token it responds and returns, else it calls fetch
GraphqlStorageCallback ==
  /\ \E h \in handlers :
       /\ h.waits = "storage"
       /\ h.request.type = "GRAPHQL_REQUEST"
       /\ IF NoToken(storage) THEN
            /\ Respond(h, [success |-> FALSE, error |-> "No token available"])
            /\ handlers' = handlers \ {h}
            /\ UNCHANGED upstream
          ELSE
            /\ upstream' = upstream \cup {[id |-> h.id, Authorization |-> storage.token]}
            /\ handlers' = (handlers \ {h}) \cup {[h EXCEPT !.waits = "fetch"]}
            /\ UNCHANGED log
  /\ UNCHANGED <<storage, nextId>>
  /\ WorkerFrame

\* the response the proxy sends for what fetch and response.json() did
GraphqlResponse(outcome) ==
  CASE outcome = "fetch rejects" -> [success |-> FALSE, error |-> "Failed to fetch"]
    [] outcome = "not ok" -> [success |-> FALSE, error |-> "API error: 401", status |-> 401]
    [] outcome = "json rejects" -> [success |-> FALSE, error |-> "Unexpected end of JSON input"]
    [] outcome = "errors" -> [success |-> FALSE, error |-> "GraphQL error"]
    [] outcome = "data" -> [success |-> TRUE, data |-> "data.data"]

\* the rest of the GRAPHQL_REQUEST callback, after fetch settles
GraphqlFetchSettles ==
  /\ \E h \in handlers :
       /\ h.waits = "fetch"
       /\ \E outcome \in FetchOutcomes : Respond(h, GraphqlResponse(outcome))
       /\ handlers' = handlers \ {h}
  /\ UNCHANGED <<storage, upstream, nextId>>
  /\ WorkerFrame

NextWorker ==
  \/ ReceiveMessage
  \/ TokenCapturedCallback
  \/ ClearTokenCallback
  \/ GetStatusCallback
  \/ GetTokenCallback
  \/ GraphqlStorageCallback
  \/ GraphqlFetchSettles

SpecWorker == InitWorker /\ [][NextWorker]_vars

\* =================================================================== claims
HasStats == stats # Pending /\ stats # Undefined

StatsFieldNames(r) ==
  {IF r = "median" THEN "median" ELSE "avg", "min", "max", "stdDev", "values"}

\* C2: calculateStats returns undefined exactly for the empty array; for every
\* non-empty array it returns a Stats record (central value, min, max, stdDev,
\* values), never an all-zero Stats standing in for absence.
C2_AbsentIffEmpty ==
  stats # Pending =>
    /\ (stats = Undefined) <=> (Len(values) = 0)
    /\ Len(values) > 0 =>
         /\ DOMAIN stats = StatsFieldNames(rule)
         /\ IsNumber(Central(stats)) /\ IsNumber(stats.min) /\ IsNumber(stats.max)
         /\ stats.values = values

C2_Witness == values = << >> /\ stats = Undefined

RECURSIVE SumSqDev(_, _)
\* the sum of the squared differences between each sample and c
SumSqDev(vals, c) ==
  IF vals = << >> THEN Int2Rat(0)
  ELSE RAdd(RSquare(RSub(Head(vals), c)), SumSqDev(Tail(vals), c))

\* C6: the dispersion is the population root-mean-square deviation around the
\* reported central value: stdDev squared times the sample count equals the
\* sum of squared differences from the central value (divisor n, not n - 1).
C6_PopulationRms ==
  HasStats =>
    RMul(stats.stdDev.sq, Int2Rat(Len(values))) = SumSqDev(values, Central(stats))

C6_Witness ==
  /\ HasStats
  /\ Len(values) >= 3
  /\ ~SqrtIsZero(stats.stdDev)
  /\ RMul(stats.stdDev.sq, Int2Rat(Len(values) - 1)) # SumSqDev(values, Central(stats))

AllEqual(vals) == \A i, j \in 1..Len(vals) : vals[i] = vals[j]

KthSmallest(vals, k) ==
  CHOOSE x \in {vals[i] : i \in 1..Len(vals)} :
    /\ Cardinality({i \in 1..Len(vals) : RLess(vals[i], x)}) < k
    /\ Cardinality({i \in 1..Len(vals) : RLeq(vals[i], x)}) >= k

\* C8: min <= max, min and max are the exact minimum and maximum of the
\* array, and under the median rule the central value lies in [min, max]: the
\* middle sorted element for odd length, the midpoint of the two middle
\* sorted elements for even length.
C8_MinMaxMedian ==
  HasStats =>
    LET n == Len(values)
    IN  /\ RLeq(stats.min, stats.max)
        /\ \E i \in 1..n : values[i] = stats.min
        /\ \E i \in 1..n : values[i] = stats.max
        /\ \A i \in 1..n : RLeq(stats.min, values[i]) /\ RLeq(values[i], stats.max)
        /\ rule = "median" =>
             /\ RLeq(stats.min, stats.median) /\ RLeq(stats.median, stats.max)
             /\ IF n % 2 = 1
                  THEN stats.median = KthSmallest(values, (n + 1) \div 2)
                  ELSE RMul(Int2Rat(2), stats.median) =
                         RAdd(KthSmallest(values, n \div 2), KthSmallest(values, n \div 2 + 1))

C8_Witness ==
  /\ HasStats
  /\ rule = "median"
  /\ Len(values) = 4
  /\ values # SortAsc(values)
  /\ RLess(stats.min, stats.median) /\ RLess(stats.median, stats.max)
  /\ \A i \in 1..4 : values[i] # stats.median

\* face-to-path in hundredths of a degree
Centi(q) == q.n * (100 \div q.d)

\* C10: getShotShape depends only on face-to-path: below -2 'draw', above 2
\* 'fade', otherwise 'straight' (exactly -2 and 2 are 'straight'); 'strong '
\* is prefixed exactly when |face-to-path| > 5; the club path never changes
\* the label.
C10_ShapeByFaceToPath ==
  (call.fn = "getShotShape" /\ ret # Pending) =>
    LET f     == Centi(call.faceToPath)
        base  == IF f < -200 THEN "draw" ELSE IF f > 200 THEN "fade" ELSE "straight"
        label == (IF f > 500 \/ f < -500 THEN "strong " ELSE "") \o base
    IN  /\ ret.value = label
        /\ \A p \in -MaxPath..MaxPath : getShotShape(Int2Rat(p), call.faceToPath) = label

C10_Witness ==
  /\ call.fn = "getShotShape"
  /\ ret # Pending
  /\ call.faceToPath = Int2Rat(2)
  /\ call.clubPath = Int2Rat(-2)
  /\ ret.value = "straight"

\* (dispersion / |central|) < t / 100, dispersion = sqrt(q): by squaring,
\* q * 100^2 < t^2 * central^2 (integers: q = n / d, central an integer)
CvBelow(q, central, t) ==
  central # 0 /\ q.n * 10000 < t * t * central * central * q.d

\* C11: getConsistencyRating classifies by dispersion / |central value|:
\* < 0.03 'excellent', else < 0.06 'good', else < 0.10 'moderate', else
\* 'inconsistent'; every pair gets one of the four ratings, a central value
\* of 0 included (then 'inconsistent'), and a value exactly on a cutoff is in
\* the higher band.
C11_ConsistencyCutoffs ==
  (call.fn = "getConsistencyRating" /\ ret # Pending) =>
    LET q == call.stdDev.sq
        c == call.median.n
    IN  /\ ret.value \in {"excellent", "good", "moderate", "inconsistent"}
        /\ ret.value = "excellent" <=> CvBelow(q, c, 3)
        /\ ret.value = "good" <=> (~CvBelow(q, c, 3) /\ CvBelow(q, c, 6))
        /\ ret.value = "moderate" <=> (~CvBelow(q, c, 6) /\ CvBelow(q, c, 10))
        /\ c = 0 => ret.value = "inconsistent"
        /\ ret.value = getConsistencyRating(call.stdDev, RNeg(call.median))

C11_Witness ==
  /\ call.fn = "getConsistencyRating"
  /\ ret # Pending
  /\ call.stdDev = Sqrt(Int2Rat(9))
  /\ call.median = Int2Rat(-100)
  /\ ret.value = "good"

\* ------------------------------------------------------------ engine claims
SummaryDone == pc \in {"insights", "table", "panel", "done"}

InsightsDone == pc \in {"table", "panel", "done"}

\* the fixed sentence for a batch of n < 3 shots
OnlySentence(n) ==
  "Only " \o ToString(n) \o (IF n = 1 THEN " shot" ELSE " shots") \o
  " recorded--more data needed for meaningful analysis."

StartsWith(str, prefix) ==
  Len(str) >= Len(prefix) /\ SubSeq(str, 1, Len(prefix)) = prefix

\* some insight rule applies to the analysis of the batch
SomeInsightApplies ==
  \/ Has(analysis.smashFactorStats) /\ RLeq(Pct(148), Central(analysis.smashFactorStats))
  \/ Has(analysis.carrySideStats) /\ SqrtLess(analysis.carrySideStats.stdDev, Int2Rat(8))
  \/ Has(analysis.faceToPathStats) /\ RLess(Int2Rat(4), RAbs(Central(analysis.faceToPathStats)))
  \/ Has(analysis.carrySideStats) /\ RLess(Int2Rat(10), RAbs(Central(analysis.carrySideStats)))
  \/ Has(analysis.clubPathStats) /\ SqrtGreater(analysis.clubPathStats.stdDev, Int2Rat(4))

ShotValue(stroke, key) ==
  IF stroke.Measurement # Undefined THEN stroke.Measurement[key]
  ELSE IF stroke.NormalizedMeasurement # Undefined THEN stroke.NormalizedMeasurement[key]
  ELSE Undefined

ShotsWith(key) == {i \in 1..Len(strokes) : ShotValue(strokes[i], key) # Undefined}

\* C4: absent channel values are excluded, never coerced to zero: the value
\* list of a channel's Stats has one entry per shot that has the channel, each
\* entry the value of such a shot; a channel no shot has gets no Stats; the
\* empty batch gives shotCount 0 and no channel entries.
C4_AbsentExcluded ==
  SummaryDone =>
    /\ analysis.shotCount = Len(strokes)
    /\ \A f \in StatsFields :
         LET have == ShotsWith(StatsKey[f])
         IN  IF have = {} THEN analysis[f] = Undefined
             ELSE /\ analysis[f] # Undefined
                  /\ Len(analysis[f].values) = Cardinality(have)
                  /\ \A j \in 1..Len(analysis[f].values) :
                       \E i \in have : analysis[f].values[j] = ShotValue(strokes[i], StatsKey[f])

C4_Witness ==
  /\ SummaryDone
  /\ Len(strokes) = 3
  /\ Cardinality(ShotsWith("CarrySide")) = 2
  /\ Len(analysis.carrySideStats.values) = 2
  /\ Len(analysis.carryStats.values) = 3

\* the values of the shots for a key, in shot order, by a per-shot rule
ValuesBy(Value(_, _), key) ==
  LET have == {i \in 1..Len(strokes) : Value(strokes[i], key) # Undefined}
      Nth(j) == CHOOSE i \in have : Cardinality({x \in have : x < i}) = j - 1
  IN  [j \in 1..Cardinality(have) |-> Value(strokes[Nth(j)], key)]

\* the extracted values of every channel follow the per-shot rule Value
ExtractionFollows(Value(_, _)) ==
  \A f \in StatsFields :
    LET expected == ValuesBy(Value, StatsKey[f])
    IN  IF expected = << >> THEN analysis[f] = Undefined
        ELSE analysis[f] # Undefined /\ analysis[f].values = expected

\* per channel: the raw value when raw supplies the channel, else normalized
ChannelFallbackValue(stroke, key) ==
  IF stroke.Measurement # Undefined /\ stroke.Measurement[key] # Undefined
    THEN stroke.Measurement[key]
  ELSE IF stroke.NormalizedMeasurement # Undefined THEN stroke.NormalizedMeasurement[key]
  ELSE Undefined

\* C5 as claimed: the extracted value is the raw record's value when raw
\* supplies that channel, otherwise the normalized record's value.
C5_ChannelFallback == SummaryDone => ExtractionFollows(ChannelFallbackValue)

\* C5 as amended: the fallback is per record, not per channel: the extracted
\* value is the raw record's value whenever the shot has a raw record (no
\* value when that record lacks the channel), and the normalized record's
\* value only when the shot has no raw record.
C5_RecordFallback == SummaryDone => ExtractionFollows(ShotValue)

C5_Witness ==
  /\ SummaryDone
  /\ Len(strokes) >= 2
  /\ \E i \in 1..Len(strokes) :
       /\ strokes[i].Measurement # Undefined
       /\ strokes[i].NormalizedMeasurement # Undefined
       /\ strokes[i].Measurement["CarrySide"] = Undefined
       /\ strokes[i].NormalizedMeasurement["CarrySide"] # Undefined
  /\ \E i \in 1..Len(strokes) :
       /\ strokes[i].Measurement = Undefined
       /\ strokes[i].NormalizedMeasurement # Undefined
  /\ Len(analysis.carrySideStats.values) < Len(analysis.carryStats.values)

\* the central value a chart plots equals the one the narrative reports
SameCentral(chart, field, statsField) ==
  (~IsPlaceholder(chart) /\ Has(analysis[statsField])) =>
    chart[field] = Central(analysis[statsField])

\* C3: one central-value rule is used for the whole batch: the central values
\* the charts plot (dispersion carry line, impact crosshair, launch lines,
\* trajectory reference path) equal the central values of the Stats the
\* summary and insights are evaluated on.
C3_UniformCentral ==
  (pc = "done" /\ panel # Null) =>
    /\ SameCentral(panel.dispersion, "medianCarry", "carryStats")
    /\ SameCentral(panel.impact, "medianPath", "clubPathStats")
    /\ SameCentral(panel.impact, "medianFace", "faceAngleStats")
    /\ SameCentral(panel.launch, "medianAngle", "launchAngleStats")
    /\ SameCentral(panel.launch, "medianSpeed", "ballSpeedStats")
    /\ SameCentral(panel.trajectory, "medianCarry", "carryStats")
    /\ SameCentral(panel.trajectory, "medianHeight", "maxHeightStats")

\* the batch with every record cut down to the given keys
RestrictBatch(keys) ==
  [i \in 1..Len(strokes) |->
     Stroke(IF strokes[i].Measurement = Undefined THEN Undefined
            ELSE Restrict(strokes[i].Measurement, keys),
            IF strokes[i].NormalizedMeasurement = Undefined THEN Undefined
            ELSE Restrict(strokes[i].NormalizedMeasurement, keys))]

EndsWith(str, suffix) ==
  Len(str) >= Len(suffix) /\ SubSeq(str, Len(str) - Len(suffix) + 1, Len(str)) = suffix

IsOverallPart(part) == EndsWith(part, "overall shot-to-shot repeatability.")

\* the clauses of the summary in their fixed order, each with the keys its
\* Stats come from
ClauseKeys ==
  << {"Carry"}, {"CarrySide"}, {"ClubPath", "FaceAngle", "FaceToPath"},
     {"ClubSpeed", "SmashFactor"}, {"LaunchAngle"}, {"SpinRate"}, {"SpinAxis"},
     {"AttackAngle"}, {"Carry", "CarrySide", "ClubSpeed", "SpinRate"} >>

\* the condition under which clause k is present
ClauseGate(k) ==
  CASE k = 1 -> Has(analysis.carryStats)
    [] k = 2 -> Has(analysis.carrySideStats)
    [] k = 3 -> Has(analysis.clubPathStats) /\ Has(analysis.faceAngleStats)
                  /\ Has(analysis.faceToPathStats)
    [] k = 4 -> Has(analysis.clubSpeedStats) /\ Has(analysis.smashFactorStats)
    [] k = 5 -> Has(analysis.launchAngleStats)
    [] k = 6 -> Has(analysis.spinRateStats)
    [] k = 7 -> Has(analysis.spinAxisStats)
                  /\ RLess(Int2Rat(5), RAbs(Central(analysis.spinAxisStats)))
    [] k = 8 -> Has(analysis.attackAngleStats) /\ includes(toLowerCase(clubName), "driver")
    [] k = 9 -> Cardinality({f \in {"carryStats", "carrySideStats", "clubSpeedStats",
                                    "spinRateStats"} : Has(analysis[f])}) >= 3

\* the text of clause k when the batch carries nothing but that clause's keys
ClauseAlone(k) ==
  LET parts == SummaryParts(rule, analyzeClubGroup(rule, RestrictBatch(ClauseKeys[k])), clubName)
  IN  IF k = 9 THEN SelectSeq(parts, IsOverallPart) ELSE parts

RECURSIVE ClausesFrom(_)
ClausesFrom(k) ==
  IF k > Len(ClauseKeys) THEN << >>
  ELSE (IF ClauseGate(k) THEN ClauseAlone(k) ELSE << >>) \o ClausesFrom(k + 1)

\* C9: for a batch of 3 or more shots the summary is the clauses distance,
\* dispersion, swing path & face, speed & efficiency, launch angle, spin rate,
\* spin axis, attack angle, overall repeatability, in this order, joined by a
\* space; a clause is present exactly when its required Stats are present
\* (spin axis also needs |central| > 5, attack angle a driver, the verdict 3
\* of its 4 channels); the text of a clause is the text it has when the other
\* clauses' channels are absent.
C9_OrderedIndependentClauses ==
  (pc = "insights" /\ Len(strokes) >= 3) =>
    /\ summary = Join(ClausesFrom(1), " ")
    /\ \A k \in 1..Len(ClauseKeys) : ClauseGate(k) <=> ClauseAlone(k) # << >>

C9_Witness ==
  /\ pc = "insights"
  /\ Len(strokes) >= 3
  /\ \A k \in 1..Len(ClauseKeys) : ClauseGate(k)
  /\ Len(ClausesFrom(1)) = 10

\* the dispersion clause the claim prescribes for a carry-side Stats
DispersionClause(sideStats) ==
  LET q      == sideStats.stdDev.sq
      c      == Central(sideStats)
      rating == IF RLess(q, Int2Rat(25)) THEN "tight"
                ELSE IF RLess(q, Int2Rat(100)) THEN "good"
                ELSE IF RLess(q, Int2Rat(324)) THEN "moderate"
                ELSE "wide"
      side   == IF RLess(c, Int2Rat(-5)) THEN " with a tendency left"
                ELSE IF RLess(Int2Rat(5), c) THEN " with a tendency right"
                ELSE ""
  IN  "Dispersion is " \o rating \o " (+/-" \o formatNumSqrt(sideStats.stdDev, 1) \o
      " yards)" \o side \o "."

\* C12: the dispersion clause rates the carry-side stdDev < 5 'tight', < 10
\* 'good', < 18 'moderate', else 'wide', and appends ' with a tendency left'
\* (central < -5) or ' with a tendency right' (central > 5) exactly when
\* |central carry side| > 5; at |central| = 5 nothing is appended; without
\* carry-side Stats there is no dispersion clause.
C12_DispersionClause ==
  (pc = "insights" /\ Len(strokes) >= 3) =>
    IF Has(analysis.carrySideStats)
      THEN includes(summary, DispersionClause(analysis.carrySideStats))
      ELSE ~includes(summary, "Dispersion is ")

C12_Witness ==
  /\ pc = "insights"
  /\ Len(strokes) >= 3
  /\ Has(analysis.carrySideStats)
  /\ analysis.carrySideStats.stdDev = Sqrt(Int2Rat(25))
  /\ Central(analysis.carrySideStats) = Int2Rat(5)
  /\ summary = "Dispersion is good (+/-5.0 yards)."

\* the channels of the repeatability verdict that have Stats
VerdictChannels ==
  {f \in {"carryStats", "carrySideStats", "clubSpeedStats", "spinRateStats"} :
     Has(analysis[f])}

\* dispersion / central value of a channel of the analysis
CvOf(f) == Score(analysis[f].stdDev, Central(analysis[f]))

\* the coefficients of variation of the channels present, the carry side
\* among them
CvOfEveryChannel ==
  (IF Has(analysis.carryStats) THEN << CvOf("carryStats") >> ELSE << >>) \o
  (IF Has(analysis.carrySideStats) THEN << CvOf("carrySideStats") >> ELSE << >>) \o
  (IF Has(analysis.clubSpeedStats) THEN << CvOf("clubSpeedStats") >> ELSE << >>) \o
  (IF Has(analysis.spinRateStats) THEN << CvOf("spinRateStats") >> ELSE << >>)

\* the same, with the carry-side dispersion divided by the constant 20
CvAndScaledSide ==
  (IF Has(analysis.carryStats) THEN << CvOf("carryStats") >> ELSE << >>) \o
  (IF Has(analysis.carrySideStats)
     THEN << Score(analysis.carrySideStats.stdDev, Int2Rat(20)) >> ELSE << >>) \o
  (IF Has(analysis.clubSpeedStats) THEN << CvOf("clubSpeedStats") >> ELSE << >>) \o
  (IF Has(analysis.spinRateStats) THEN << CvOf("spinRateStats") >> ELSE << >>)

\* the comparisons of the mean with 0.03, 0.06 and 0.10 are decided exactly
VerdictDecided(scores) == \A pct \in {3, 6, 10} : MeanCVDecided(scores, pct)

VerdictWord(scores) ==
  IF MeanCVLess(scores, 3) THEN "Excellent"
  ELSE IF MeanCVLess(scores, 6) THEN "Good"
  ELSE IF MeanCVLess(scores, 10) THEN "Moderate"
  ELSE "Work needed on"

VerdictSuffix == "overall shot-to-shot repeatability."

\* the summary ends with the verdict of the given scores, exactly when at
\* least 3 of the 4 channels have Stats
VerdictFrom(scores) ==
  (pc = "insights" /\ Len(strokes) >= 3) =>
    /\ EndsWith(summary, VerdictSuffix) <=> Cardinality(VerdictChannels) >= 3
    /\ (Cardinality(VerdictChannels) >= 3 /\ VerdictDecided(scores)) =>
         EndsWith(summary, VerdictWord(scores) \o " " \o VerdictSuffix)

\* C13 as claimed: the verdict is emitted iff at least 3 of carry, carry
\* side, club speed and spin rate have Stats, and it is the band of the mean
\* of those channels' dispersion / central value.
C13_MeanOfCvs == VerdictFrom(CvOfEveryChannel)

\* C13 as amended: the verdict is emitted iff at least 3 of the 4 channels
\* have Stats, and it is the band of the mean of dispersion / central value
\* (signed) for carry, club speed and spin rate and of dispersion / 20 for
\* the carry side.
C13_MeanOfScores ==
  /\ VerdictFrom(CvAndScaledSide)
  /\ (pc = "insights" /\ Len(strokes) >= 3 /\ Cardinality(VerdictChannels) >= 3) =>
       VerdictDecided(CvAndScaledSide)

C13_Witness ==
  /\ pc = "insights"
  /\ Len(strokes) >= 3
  /\ Cardinality(VerdictChannels) = 4
  /\ VerdictDecided(CvOfEveryChannel)
  /\ VerdictWord(CvOfEveryChannel) = "Excellent"
  /\ EndsWith(summary, "Work needed on overall shot-to-shot repeatability.")

\* the same club name in other letter cases
CaseVariants(club) ==
  CASE club = "Driver" -> {"driver"}
    [] club = "DRIVER" -> {"Driver"}
    [] club = "7Iron" -> {"7IRON"}
    [] club = "Sand WEDGE" -> {"sand wedge"}
    [] club = "3Wood" -> {"3WOOD"}
    [] OTHER -> {}

\* the club type of a name, read off the name by a person
ClubKind(club) ==
  CASE club \in {"Driver", "DRIVER"} -> "driver"
    [] club \in {"7Iron", "Sand WEDGE"} -> "ironOrWedge"
    [] OTHER -> "generic"

SpinBand(kind, spin) ==
  CASE kind = "driver" ->
         IF RLess(spin, Int2Rat(2000)) THEN "very low (may balloon or have limited carry)"
         ELSE IF RLess(spin, Int2Rat(2500)) THEN "optimal for distance"
         ELSE IF RLess(spin, Int2Rat(3000)) THEN "slightly high"
         ELSE "too high (losing distance)"
    [] kind = "ironOrWedge" ->
         IF RLess(spin, Int2Rat(4000)) THEN "low (may struggle to hold greens)"
         ELSE IF RLess(spin, Int2Rat(7000)) THEN "good"
         ELSE IF RLess(spin, Int2Rat(9000)) THEN "high (good stopping power)"
         ELSE "very high"
    [] OTHER -> "within normal range"

LaunchBand(kind, angle) ==
  IF kind = "driver" THEN
    IF RLess(angle, Int2Rat(9)) THEN "too low for optimal carry"
    ELSE IF RLess(angle, Int2Rat(12)) THEN "slightly low"
    ELSE IF RLess(angle, Int2Rat(15)) THEN "optimal"
    ELSE IF RLess(angle, Int2Rat(18)) THEN "slightly high"
    ELSE "too high"
  ELSE IF RLess(angle, Int2Rat(10)) THEN "low"
  ELSE IF RLess(angle, Int2Rat(20)) THEN "mid"
  ELSE IF RLess(angle, Int2Rat(30)) THEN "high"
  ELSE "very high"

SmashBand(kind, smash) ==
  IF kind = "driver" THEN
    IF ~RLess(smash, Rat(150, 100)) THEN "excellent (tour-level efficiency)"
    ELSE IF ~RLess(smash, Rat(148, 100)) THEN "very good"
    ELSE IF ~RLess(smash, Rat(145, 100)) THEN "good"
    ELSE IF ~RLess(smash, Rat(140, 100)) THEN "below average"
    ELSE "poor (check strike quality)"
  ELSE IF ~RLess(smash, Rat(138, 100)) THEN "excellent"
  ELSE IF ~RLess(smash, Rat(133, 100)) THEN "good"
  ELSE IF ~RLess(smash, Rat(128, 100)) THEN "average"
  ELSE "below average"

\* C14: club-type sensitivity is a case-insensitive substring match: a club
\* name in another letter case gives the same summary and insights for the
\* same shots; a name containing 'driver' gets the driver bands (spin,
\* launch, smash factor), the attack-angle clause and the driver spin
\* insight; a name containing 'iron' or 'wedge' gets the iron/wedge spin
\* bands; any other name gets the generic bands.
C14_ClubTypeByName ==
  (pc = "done" /\ Len(strokes) >= 3) =>
    LET kind == ClubKind(clubName)
        a    == analysis
    IN  /\ \A v \in CaseVariants(clubName) :
             /\ generateShotSummary(rule, strokes, v) = summary
             /\ generateKeyInsights(rule, strokes, v) = insights
        /\ Has(a.spinRateStats) =>
             includes(summary, "rpm--" \o SpinBand(kind, Central(a.spinRateStats))
                                \o ". Spin consistency is ")
        /\ Has(a.launchAngleStats) =>
             includes(summary, "deg (" \o LaunchBand(kind, Central(a.launchAngleStats)) \o ").")
        /\ (Has(a.clubSpeedStats) /\ Has(a.smashFactorStats)) =>
             includes(summary, " is " \o SmashBand(kind, Central(a.smashFactorStats)) \o ".")
        /\ includes(summary, "Attack angle of ") <=>
             (kind = "driver" /\ Has(a.attackAngleStats))
        /\ (\E i \in 1..Len(insights) : insights[i] = "High driver spin--losing distance") <=>
             (kind = "driver" /\ Has(a.spinRateStats)
                /\ RLess(Int2Rat(3000), Central(a.spinRateStats)))

C14_Witness ==
  /\ pc = "done"
  /\ Len(strokes) >= 3
  /\ clubName = "Sand WEDGE"
  /\ Has(analysis.spinRateStats)
  /\ Has(analysis.attackAngleStats)
  /\ includes(summary, "rpm--low (may struggle to hold greens). Spin consistency is ")
  /\ ~includes(summary, "Attack angle of ")

\* the insight phrases: strengths, then weaknesses
StrengthPhrases ==
  {"Strong ball striking efficiency", "Tight lateral dispersion",
   "Very consistent swing speed"}

WeaknessPhrases ==
  {"Face open to path (slice tendency)", "Face closed to path (hook tendency)",
   "Consistent miss left--check alignment", "Consistent miss right--check alignment",
   "High driver spin--losing distance", "Inconsistent swing path"}

\* sqrt(q) / central < 3 / 100 (signed ratio; a ratio by 0 is never below)
SpeedRatioSmall(q, central) ==
  \/ central.n < 0
  \/ central.n > 0 /\ RLess(q, RMul(RSquare(central), Rat(9, 10000)))

\* the condition of the rule that yields the phrase, from the analysis
InsightCondition(phrase) ==
  LET a == analysis
  IN  CASE phrase = "Strong ball striking efficiency" ->
             Has(a.smashFactorStats) /\ ~RLess(Central(a.smashFactorStats), Rat(148, 100))
        [] phrase = "Tight lateral dispersion" ->
             Has(a.carrySideStats) /\ RLess(a.carrySideStats.stdDev.sq, Int2Rat(64))
        [] phrase = "Very consistent swing speed" ->
             Has(a.clubSpeedStats)
               /\ SpeedRatioSmall(a.clubSpeedStats.stdDev.sq, Central(a.clubSpeedStats))
        [] phrase = "Face open to path (slice tendency)" ->
             Has(a.faceToPathStats) /\ RLess(Int2Rat(4), Central(a.faceToPathStats))
        [] phrase = "Face closed to path (hook tendency)" ->
             Has(a.faceToPathStats) /\ RLess(Central(a.faceToPathStats), Int2Rat(-4))
        [] phrase = "Consistent miss left--check alignment" ->
             Has(a.carrySideStats) /\ RLess(Central(a.carrySideStats), Int2Rat(-10))
        [] phrase = "Consistent miss right--check alignment" ->
             Has(a.carrySideStats) /\ RLess(Int2Rat(10), Central(a.carrySideStats))
        [] phrase = "High driver spin--losing distance" ->
             Has(a.spinRateStats) /\ ClubKind(clubName) = "driver"
               /\ RLess(Int2Rat(3000), Central(a.spinRateStats))
        [] phrase = "Inconsistent swing path" ->
             Has(a.clubPathStats) /\ RLess(Int2Rat(16), a.clubPathStats.stdDev.sq)

\* C15: for a batch of 3 or more shots every insight phrase is in the list
\* exactly when its own rule's condition holds, whatever the other rules do;
\* the list holds nothing else and no phrase twice (it is empty when no
\* condition holds); every strength phrase precedes every weakness phrase.
C15_IndependentRules ==
  (pc = "done" /\ Len(strokes) >= 3) =>
    LET n == Len(insights)
    IN  /\ \A p \in StrengthPhrases \cup WeaknessPhrases :
             (\E i \in 1..n : insights[i] = p) <=> InsightCondition(p)
        /\ \A i \in 1..n : insights[i] \in StrengthPhrases \cup WeaknessPhrases
        /\ \A i, j \in 1..n : i # j => insights[i] # insights[j]
        /\ \A i, j \in 1..n :
             (insights[i] \in StrengthPhrases /\ insights[j] \in WeaknessPhrases) => i < j

C15_Witness ==
  /\ pc = "done"
  /\ Len(strokes) >= 3
  /\ Len(insights) >= 4
  /\ insights[2] \in StrengthPhrases
  /\ insights[3] \in WeaknessPhrases
  /\ ~InsightCondition("Inconsistent swing path")

\* the outputs of the render are those of a second evaluation on the batch
SameOnSecondCall ==
  /\ SummaryDone =>
       /\ analysis = analyzeClubGroup(rule, strokes)
       /\ summary = generateShotSummary(rule, strokes, clubName)
  /\ InsightsDone => insights = generateKeyInsights(rule, strokes, clubName)
  /\ pc = "done" => panel = ShotVisualizationPanel(strokes)

\* every value list retained in a Stats is in the order of the shots
ValuesInInputOrder == SummaryDone => ExtractionFollows(ShotValue)

ShotsWithAll(keys) ==
  {i \in 1..Len(strokes) : \A k \in keys : ShotValue(strokes[i], k) # Undefined}

\* the chart is the placeholder exactly below its minimum of shots having
\* the keys, and otherwise plots exactly those shots
GateAt(chart, keys, minimum) ==
  LET valid == ShotsWithAll(keys)
  IN  IF Cardinality(valid) < minimum THEN IsPlaceholder(chart)
      ELSE /\ ~IsPlaceholder(chart)
           /\ Len(chart.data) = Cardinality(valid)
           /\ {chart.data[j].idx : j \in 1..Len(chart.data)} = valid

\* C17: DispersionChart, ImpactChart and LaunchChart return the placeholder
\* exactly when fewer than 2 shots have all of the chart's required channels,
\* TrajectoryChart exactly when no shot has carry, max height and launch
\* angle; a shot lacking a required channel is neither counted nor plotted.
C17_ChartGates ==
  (pc = "done" /\ panel # Null) =>
    /\ GateAt(panel.dispersion, {"Carry", "CarrySide"}, 2)
    /\ GateAt(panel.impact, {"ClubPath", "FaceAngle"}, 2)
    /\ GateAt(panel.launch, {"LaunchAngle", "BallSpeed"}, 2)
    /\ GateAt(panel.trajectory, {"Carry", "MaxHeight", "LaunchAngle"}, 1)

C17_Witness ==
  /\ pc = "done"
  /\ panel # Null
  /\ Len(strokes) = 3
  /\ Cardinality(ShotsWithAll({"LaunchAngle", "BallSpeed"})) = 1
  /\ IsPlaceholder(panel.launch)
  /\ ~IsPlaceholder(panel.trajectory)
  /\ Len(panel.trajectory.data) = 2

\* C18: for every batch that passes a chart's gate the domain widths the
\* scale functions divide by are non-zero: dispersion maxCarry - minCarry and
\* 2 * maxSide, impact bound, launch maxAngle - minAngle and maxSpeed -
\* minSpeed, trajectory maxCarry * 1.1 and maxHeight * 1.2.
C18_NoZeroWidth ==
  (pc = "done" /\ panel # Null) =>
    /\ ~IsPlaceholder(panel.dispersion) =>
         /\ ~RIsZero(RSub(panel.dispersion.maxCarry, panel.dispersion.minCarry))
         /\ ~RIsZero(RMul(panel.dispersion.maxSide, Int2Rat(2)))
    /\ ~IsPlaceholder(panel.impact) => panel.impact.bound # 0
    /\ ~IsPlaceholder(panel.launch) =>
         /\ ~RIsZero(RSub(panel.launch.maxAngle, panel.launch.minAngle))
         /\ ~RIsZero(RSub(panel.launch.maxSpeed, panel.launch.minSpeed))
    /\ ~IsPlaceholder(panel.trajectory) =>
         /\ ~RIsZero(RMul(panel.trajectory.maxCarry, Rat(11, 10)))
         /\ ~RIsZero(RMul(panel.trajectory.maxHeight, Rat(12, 10)))

\* the plotted values of a field
Plotted(chart, field) == {chart.data[j][field] : j \in 1..Len(chart.data)}

\* C19: in the dispersion chart the lateral bound is max(|min lateral|,
\* |max lateral|, 15), so never below 15, and the carry axis runs from min
\* carry - 20% of the carry range to max carry + 20% of it; every plotted
\* lateral offset lies in [-bound, bound] and every plotted carry on the
\* carry axis (offsets -3, 4, 2 give bound 15).
C19_DispersionBounds ==
  (pc = "done" /\ panel # Null /\ ~IsPlaceholder(panel.dispersion)) =>
    LET d       == panel.dispersion
        sides   == Plotted(d, "side")
        carries == Plotted(d, "carry")
        lo      == CHOOSE c \in carries : \A x \in carries : RLeq(c, x)
        hi      == CHOOSE c \in carries : \A x \in carries : RLeq(x, c)
        pad     == RDiv(RSub(hi, lo), Int2Rat(5))
    IN  /\ RLeq(Int2Rat(15), d.maxSide)
        /\ \A x \in sides : RLeq(RAbs(x), d.maxSide)
        /\ d.maxSide = Int2Rat(15) \/ \E x \in sides : RAbs(x) = d.maxSide
        /\ d.minCarry = RSub(lo, pad)
        /\ d.maxCarry = RAdd(hi, pad)
        /\ \A c \in carries : RLeq(d.minCarry, c) /\ RLeq(c, d.maxCarry)

C19_Witness ==
  /\ pc = "done"
  /\ panel # Null
  /\ ~IsPlaceholder(panel.dispersion)
  /\ Plotted(panel.dispersion, "side") = {Int2Rat(-3), Int2Rat(4), Int2Rat(2)}
  /\ panel.dispersion.maxSide = Int2Rat(15)
  /\ panel.dispersion.minCarry = Int2Rat(148)
  /\ panel.dispersion.maxCarry = Int2Rat(162)

\* C20: in the impact chart the bound is the smallest even integer that is
\* at least 8 and at least every plotted |path| and |face|: it is even, at
\* least 8, one bound for both axes and both signs (extremes 9 and -3 give
\* bound 10).
C20_ImpactBound ==
  (pc = "done" /\ panel # Null /\ ~IsPlaceholder(panel.impact)) =>
    LET b      == panel.impact.bound
        angles == Plotted(panel.impact, "path") \cup Plotted(panel.impact, "face")
    IN  /\ b % 2 = 0
        /\ b >= 8
        /\ \A x \in angles : RLeq(RAbs(x), Int2Rat(b))
        /\ b = 8 \/ \E x \in angles : RLess(Int2Rat(b - 2), RAbs(x))

C20_Witness ==
  /\ pc = "done"
  /\ panel # Null
  /\ ~IsPlaceholder(panel.impact)
  /\ Int2Rat(9) \in Plotted(panel.impact, "path")
  /\ \A x \in Plotted(panel.impact, "path") \cup Plotted(panel.impact, "face") :
       RLeq(Int2Rat(-3), x) /\ RLeq(x, Int2Rat(9))
  /\ panel.impact.bound = 10

\* C21: in the launch chart the angle axis runs from min launch angle - 2
\* to max launch angle + 2 and the speed axis from min ball speed - 5 to max
\* ball speed + 5, for every batch that passes the gate, whatever the sign
\* or size of the extremes.
C21_LaunchAxes ==
  (pc = "done" /\ panel # Null /\ ~IsPlaceholder(panel.launch)) =>
    LET l      == panel.launch
        angles == Plotted(l, "angle")
        speeds == Plotted(l, "speed")
        Lo(S)  == CHOOSE c \in S : \A x \in S : RLeq(c, x)
        Hi(S)  == CHOOSE c \in S : \A x \in S : RLeq(x, c)
    IN  /\ l.minAngle = RSub(Lo(angles), Int2Rat(2))
        /\ l.maxAngle = RAdd(Hi(angles), Int2Rat(2))
        /\ l.minSpeed = RSub(Lo(speeds), Int2Rat(5))
        /\ l.maxSpeed = RAdd(Hi(speeds), Int2Rat(5))

\* a = b * p / q and a <= b * p / q for rationals a, b and integers p, q
\* with q > 0, over integers
EqualsTimes(a, b, p, q) == a.n * b.d * q = b.n * p * a.d

AtMostTimes(a, b, p, q) == a.n * b.d * q <= b.n * p * a.d

\* the path is the sampled parabola for carry and apex H: 0 at both ends,
\* H at the midpoint, never above H, symmetric, and inside the axis domain
SampledParabola(path, carry, H, chart) ==
  /\ Len(path) = Steps + 1
  /\ \A i \in 0..Steps :
       LET pt == path[i + 1]
       IN  /\ pt.x.d > 0 /\ pt.h.d > 0
           /\ EqualsTimes(pt.x, carry, i, Steps)
           /\ EqualsTimes(pt.h, H, 4 * i * (Steps - i), Steps * Steps)
           /\ AtMostTimes(pt.h, H, 1, 1)
           /\ pt.h = path[Steps - i + 1].h
           /\ pt.x.n >= 0
           /\ AtMostTimes(pt.x, chart.maxCarry, 11, 10)
           /\ pt.h.n >= 0
           /\ AtMostTimes(pt.h, chart.maxHeight, 12, 10)
  /\ RIsZero(path[1].h)
  /\ RIsZero(path[Steps + 1].h)
  /\ path[Steps + 1].x = carry
  /\ path[(Steps \div 2) + 1].h = H
  /\ path[(Steps \div 2) + 1].x = RDiv(carry, Int2Rat(2))

\* C22: every trajectory path, the reference path from the central carry and
\* central height included, follows height(t) = 4 * H * t * (1 - t) at
\* x = t * carry for t = i / 30, i = 0..30: 0 at t = 0 and t = 1, H at the
\* midpoint, never above H, symmetric about the midpoint, and inside the
\* axes, which extend to 1.1 * max carry and 1.2 * max height.
C22_TrajectoryParabola ==
  (pc = "done" /\ panel # Null /\ ~IsPlaceholder(panel.trajectory)) =>
    LET c == panel.trajectory
    IN  /\ Len(c.paths) = Len(c.data)
        /\ \A j \in 1..Len(c.data) :
             SampledParabola(c.paths[j], c.data[j].carry, c.data[j].height, c)
        /\ SampledParabola(c.medianPath, c.medianCarry, c.medianHeight, c)

C22_Witness ==
  /\ pc = "done"
  /\ panel # Null
  /\ ~IsPlaceholder(panel.trajectory)
  /\ \E j \in 1..Len(panel.trajectory.data) :
       /\ panel.trajectory.data[j].carry = Int2Rat(200)
       /\ panel.trajectory.data[j].height = Int2Rat(30)
       /\ panel.trajectory.paths[j][16] = [x |-> Int2Rat(100), h |-> Int2Rat(30)]
       /\ panel.trajectory.paths[j][4] = [x |-> Int2Rat(20), h |-> Rat(54, 5)]
  /\ panel.trajectory.medianCarry = Int2Rat(180)
  /\ panel.trajectory.medianHeight = Int2Rat(27)

Green == "var(--green-500)"

Red == "var(--red)"

Blue == "var(--blue)"

DotDrawn(chart) == call.fn = chart /\ ret # Pending

\* C23: every plotted point gets exactly one colour by fixed thresholds: a
\* dispersion dot is centre-coloured iff |lateral| < 10, otherwise left-
\* coloured when negative and right-coloured when positive; an impact dot is
\* neutral iff |face-to-path| < 2, otherwise coloured by sign; a launch dot
\* is low-spin iff spin < 2500, high-spin iff spin > 3500 and mid otherwise
\* (2500 and 3500 are mid), and mid without a spin value.
C23_DotColors ==
  /\ DotDrawn("DispersionChart dot") =>
       LET x == call.d.side
           c == ret.value.color
       IN  /\ c \in {Green, Red, Blue}
           /\ c = Green <=> RLess(Int2Rat(-10), x) /\ RLess(x, Int2Rat(10))
           /\ c = Red <=> RLeq(x, Int2Rat(-10))
           /\ c = Blue <=> RLeq(Int2Rat(10), x)
  /\ DotDrawn("ImpactChart dot") =>
       LET x == call.d.faceToPath
           c == ret.value.color
       IN  /\ c \in {Green, Red, Blue}
           /\ c = Green <=> RLess(Int2Rat(-2), x) /\ RLess(x, Int2Rat(2))
           /\ c = Red <=> RLeq(x, Int2Rat(-2))
           /\ c = Blue <=> RLeq(Int2Rat(2), x)
  /\ DotDrawn("LaunchChart dot") =>
       LET x == call.d.spin
           c == ret.value.color
       IN  /\ c \in {Green, Red, Blue}
           /\ x = Undefined => c = Green
           /\ x # Undefined =>
                /\ c = Blue <=> RLess(x, Int2Rat(2500))
                /\ c = Red <=> RLess(Int2Rat(3500), x)
                /\ c = Green <=> RLeq(Int2Rat(2500), x) /\ RLeq(x, Int2Rat(3500))

C23_Witness ==
  /\ DotDrawn("LaunchChart dot")
  /\ call.d.spin = Int2Rat(3500)
  /\ ret.value.color = Green

\* C27: in the impact chart colour and shape label agree for every
\* face-to-path value, the boundaries +/-2 included: neutral colour exactly
\* when the label is 'straight', negative-side colour exactly when 'draw',
\* positive-side colour exactly when 'fade'.
C27_ColorMatchesShape ==
  (DotDrawn("ImpactChart dot") /\ "shapeLabel" \in DOMAIN ret.value) =>
    /\ ret.value.color = Green <=> ret.value.shapeLabel = "straight"
    /\ ret.value.color = Red <=> ret.value.shapeLabel = "draw"
    /\ ret.value.color = Blue <=> ret.value.shapeLabel = "fade"

\* the points of a chart carry the positions of exactly the shots having the
\* keys, in increasing order, and each point shows the values of the shot at
\* its position (field f of the point is key Shown[f] of the shot)
IndexedByPosition(chart, keys, Shown) ==
  ~IsPlaceholder(chart) =>
    /\ \A j \in 1..Len(chart.data) :
         LET d == chart.data[j]
         IN  /\ d.idx \in ShotsWithAll(keys)
             /\ \A f \in DOMAIN Shown : d[f] = ShotValue(strokes[d.idx], Shown[f])
             /\ table[d.idx].num = d.idx
             /\ \A f \in DOMAIN Shown : d[f] = OptField(table[d.idx].m, Shown[f])
    /\ \A j \in 1..(Len(chart.data) - 1) : chart.data[j].idx < chart.data[j + 1].idx
    /\ {chart.data[j].idx : j \in 1..Len(chart.data)} = ShotsWithAll(keys)

\* C24: every chart point carries the 1-based position of its shot in the
\* input batch, not its position among the valid shots: dropped shots do not
\* renumber the others, indices in a chart are distinct and strictly
\* increasing, and a shot has the same index in all four charts and in the
\* shots table (row # = position).
C24_OriginalIndex ==
  (pc = "done" /\ panel # Null) =>
    /\ Len(table) = Len(strokes)
    /\ \A i \in 1..Len(table) : table[i].num = i
    /\ IndexedByPosition(panel.dispersion, {"Carry", "CarrySide"},
                          [carry |-> "Carry", side |-> "CarrySide", total |-> "Total"])
    /\ IndexedByPosition(panel.impact, {"ClubPath", "FaceAngle"},
                          [path |-> "ClubPath", face |-> "FaceAngle",
                           attackAngle |-> "AttackAngle"])
    /\ IndexedByPosition(panel.launch, {"LaunchAngle", "BallSpeed"},
                          [angle |-> "LaunchAngle", speed |-> "BallSpeed",
                           spin |-> "SpinRate"])
    /\ IndexedByPosition(panel.trajectory, {"Carry", "MaxHeight", "LaunchAngle"},
                          [carry |-> "Carry", height |-> "MaxHeight",
                           launch |-> "LaunchAngle"])

C24_Witness ==
  /\ pc = "done"
  /\ panel # Null
  /\ Len(strokes) = 3
  /\ ~IsPlaceholder(panel.launch)
  /\ Len(panel.launch.data) = 2
  /\ panel.launch.data[1].idx = 2
  /\ panel.launch.data[2].idx = 3
  /\ ~IsPlaceholder(panel.trajectory)
  /\ panel.trajectory.data[1].idx = 1
  /\ table[2].num = 2

\* C25: in ShotChart, after any sequence of session selections and fetch
\* completions, the scorecard or activity report displayed belongs to the
\* selected session (no response to a request for an earlier session is
\* shown under the current one), and the two are never displayed together.
\* Stated for the renders after the effect has run.
C25_DisplayedMatchesSession ==
  (session # Pending /\ ~effectPending) =>
    /\ scorecard # Null =>
         isCoursePlay(session) /\ scorecard.scorecardId = session.scorecardId
    /\ activityReport # Null =>
         isShotAnalysis(session) /\ activityReport.reportLink = session.reportLink
    /\ scorecard = Null \/ activityReport = Null

\* the Stats is absent or was computed from at least 3 samples
FromThreeSamples(st) == Has(st) /\ Len(st.values) >= 3

Reports(phrase) == \E i \in 1..Len(insights) : insights[i] = phrase

\* C26: whenever the summary or an insight reports a dispersion-based
\* judgement for a channel (the carry consistency rating, the dispersion
\* rating, the speed and spin consistency ratings, 'Tight lateral
\* dispersion', 'Very consistent swing speed'), that channel's Stats was
\* computed from at least 3 samples.
C26_JudgedOnThreeSamples ==
  (pc = "done" /\ Len(strokes) >= 3) =>
    /\ includes(summary, " consistency (") => FromThreeSamples(analysis.carryStats)
    /\ includes(summary, "Dispersion is ") => FromThreeSamples(analysis.carrySideStats)
    /\ includes(summary, "Spin consistency is ") => FromThreeSamples(analysis.spinRateStats)
    /\ Reports("Tight lateral dispersion") => FromThreeSamples(analysis.carrySideStats)
    /\ Reports("Very consistent swing speed") => FromThreeSamples(analysis.clubSpeedStats)

\* a chart drew its points (it is not the placeholder)
Drawn(chart) == "data" \in DOMAIN chart /\ Len(chart.data) >= 1

TrajectoryKeys == {"Carry", "MaxHeight", "LaunchAngle"}

\* C28: ShotVisualizationPanel renders no chart when the batch has fewer
\* than 2 shots; with 2 or more it renders all four charts, each either
\* drawn or its placeholder; so through the panel a trajectory chart is
\* drawn exactly for batches of at least 2 shots of which at least one has
\* carry, max height and launch angle.
C28_PanelGate ==
  pc = "done" =>
    /\ panel = Null <=> Len(strokes) < 2
    /\ panel # Null =>
         /\ DOMAIN panel = {"dispersion", "impact", "launch", "trajectory"}
         /\ \A c \in DOMAIN panel : IsPlaceholder(panel[c]) \/ Drawn(panel[c])
         /\ \A c \in {"dispersion", "impact", "launch"} :
              Drawn(panel[c]) => Len(panel[c].data) >= 2
    /\ (panel # Null /\ Drawn(panel.trajectory)) <=>
         (Len(strokes) >= 2 /\ ShotsWithAll(TrajectoryKeys) # {})

C28_Witness ==
  /\ pc = "done"
  /\ Len(strokes) = 1
  /\ ShotsWithAll(TrajectoryKeys) = {1}
  /\ panel = Null

\* the responses sent so far to the message with this id
ResponsesTo(id) == {i \in 1..Len(log) : log[i].id = id}

Waiting(id) == \E h \in handlers : h.id = id

GraphqlEntries == {i \in 1..Len(log) : log[i].request.type = "GRAPHQL_REQUEST"}

NoTokenReply == [success |-> FALSE, error |-> "No token available"]

\* every message has one response once handled and none before; a fetch was
\* made with a stored token, and only for requests not answered 'No token'
OneResponseAndTokenUpstream ==
  /\ \A id \in 1..(nextId - 1) :
       Cardinality(ResponsesTo(id)) = IF Waiting(id) THEN 0 ELSE 1
  /\ \A u \in upstream : u.Authorization \in Tokens
  /\ \A i \in GraphqlEntries :
       log[i].response = NoTokenReply <=> ~(\E u \in upstream : u.id = log[i].id)

\* the step a GRAPHQL_REQUEST takes with the result of storage.get: without
\* a stored token it replies 'No token available' and fetches nothing, with
\* one it fetches with that token and does not reply yet
GraphqlHandledByToken ==
  \A h \in handlers :
    (h.request.type = "GRAPHQL_REQUEST" /\ h.waits = "storage" /\ h \notin handlers') =>
      IF storage = Undefined
        THEN /\ upstream' = upstream
             /\ log' = Append(log, [id |-> h.id, request |-> h.request,
                                     response |-> NoTokenReply])
        ELSE /\ upstream' = upstream \cup {[id |-> h.id, Authorization |-> storage.token]}
             /\ log' = log

\* C29: the GraphQL proxy never sends a request upstream without a stored
\* token: a GRAPHQL_REQUEST handled while no token is stored is answered
\* {success: false, error: 'No token available'} without a fetch, and on
\* every path (no token, HTTP error, GraphQL errors, exception, success) the
\* request receives exactly one response.
C29_ProxyNeedsToken ==
  []OneResponseAndTokenUpstream /\ [][GraphqlHandledByToken]_vars

C29_Witness ==
  /\ \E i \in GraphqlEntries : log[i].response = NoTokenReply
  /\ \E i \in GraphqlEntries : log[i].response.success
  /\ upstream # {}

Writes == {"TOKEN_CAPTURED", "CLEAR_TOKEN"}

Reads == {"GET_STATUS", "GET_TOKEN"}

\* the last response to a TOKEN_CAPTURED or CLEAR_TOKEN before entry j
\* (0 if there is none)
LastWriteBefore(j) ==
  LET ws == {i \in 1..(j - 1) : log[i].request.type \in Writes}
  IN  IF ws = {} THEN 0 ELSE CHOOSE i \in ws : \A k \in ws : k <= i

\* what GET_STATUS and GET_TOKEN answer for a stored value
StatusReply(auth) ==
  IF auth = Undefined THEN [connected |-> FALSE]
  ELSE [connected |-> TRUE, capturedAt |-> auth.capturedAt]

TokenReply(auth) ==
  IF auth = Undefined
    THEN [success |-> FALSE,
          error |-> "No token available. Please log in to Trackman portal."]
    ELSE [success |-> TRUE, token |-> auth.token, capturedAt |-> auth.capturedAt]

\* what the last completed write left in storage
LeftBy(entry) ==
  IF entry.request.type = "CLEAR_TOKEN" THEN Undefined
  ELSE [token |-> entry.request.token, capturedAt |-> entry.request.capturedAt]

\* storage holds what the last completed write left, and every answer to
\* GET_STATUS and GET_TOKEN after a completed write reports what it left
FollowsLastWrite ==
  /\ LastWriteBefore(Len(log) + 1) # 0 =>
       storage = LeftBy(log[LastWriteBefore(Len(log) + 1)])
  /\ \A j \in 1..Len(log) :
       (log[j].request.type \in Reads /\ LastWriteBefore(j) # 0) =>
         LET auth == LeftBy(log[LastWriteBefore(j)])
         IN  log[j].response = IF log[j].request.type = "GET_STATUS"
                               THEN StatusReply(auth) ELSE TokenReply(auth)

\* an answer to GET_STATUS or GET_TOKEN reports the storage as it is, and
\* only answered TOKEN_CAPTURED and CLEAR_TOKEN messages change the storage
ReportsStorage ==
  /\ \A h \in handlers :
       (h.request.type \in Reads /\ h \notin handlers') =>
         log' = Append(log, [id |-> h.id, request |-> h.request,
                             response |-> IF h.request.type = "GET_STATUS"
                                          THEN StatusReply(storage)
                                          ELSE TokenReply(storage)])
  /\ storage' # storage =>
       /\ Len(log') = Len(log) + 1
       /\ log'[Len(log')].request.type \in Writes

\* C30: over any interleaving of TOKEN_CAPTURED, CLEAR_TOKEN, GET_STATUS and
\* GET_TOKEN: GET_STATUS reports connected and GET_TOKEN success exactly
\* when a token is stored; the stored token is the one of the most recently
\* completed TOKEN_CAPTURED; once a CLEAR_TOKEN has completed both report
\* no token until a later TOKEN_CAPTURED completes.
C30_TokenLifecycle ==
  []FollowsLastWrite /\ [][ReportsStorage]_vars

C30_Witness ==
  /\ Len(log) = 3
  /\ log[1].request.type = "CLEAR_TOKEN"
  /\ log[2].request.type = "GET_STATUS"
  /\ log[2].response = [connected |-> FALSE]
  /\ log[3].request.type = "TOKEN_CAPTURED"
  /\ storage = [token |-> log[3].request.token, capturedAt |-> log[3].request.capturedAt]
  /\ log[3].id < log[1].id

====
